---- MODULE Spec2Model ----
(***************************************************************************)
(* OneDrive sync: change-set resolution, scope filtering, destination      *)
(* routing and delivery with re-authentication, modelled from the upload   *)
(* script (OneDriveUploader, loadFolderMapping, getFolderMapping,          *)
(* findAllFiles, getChangedFiles, main).                                   *)
(*                                                                         *)
(* A path, a mapping key and a glob pattern are JavaScript strings; they   *)
(* are modelled as sequences of one-character strings so that split('/'),  *)
(* the backslash normalisation and the glob match are computed, not        *)
(* assumed.                                                                *)
(***************************************************************************)
EXTENDS Integers, Sequences, FiniteSets, TLC

VARIABLES
    yaml,             \* the parsed folder-mapping.yml document, before defaults
    env,              \* process.env: GITHUB_ACTIONS, GITHUB_EVENT_NAME
    tree,             \* the files of the working tree, in glob's traversal order
    git,              \* what `git diff --name-only` does: fails, or lists paths
    pc,               \* position of main()
    config,           \* the value returned by loadFolderMapping
    mode,             \* which branch of getChangedFiles produced the list
    allChangedFiles,  \* main: the list returned by getChangedFiles
    idx,              \* main: 1-based position of the for-of loop
    mapping,          \* main: the loop's `mapping` local
    successCount,     \* main: step 1 counters
    errorCount,
    skippedCount,
    accessToken,      \* OneDriveUploader.accessToken (0 is null)
    refreshToken,     \* OneDriveUploader.refreshToken
    issued,           \* number of tokens the token endpoint has issued
    remote,           \* the drive: <<folderId, fileName>> -> content
    call,             \* bookkeeping of the uploadFile call in flight
    fileExists,       \* uploadFile: the `fileExists` local
    log,              \* one record per file the loop has finished
    step2,            \* main, step 2: pdfFiles, loop position, counters, log
    inflight          \* uploadFile calls a library client runs concurrently

vars == <<yaml, env, tree, git, pc, config, mode, allChangedFiles, idx, mapping,
          successCount, errorCount, skippedCount, accessToken, refreshToken,
          issued, remote, call, fileExists, log, step2, inflight>>

(***************************************************************************)
(* Bounds of the model.                                                    *)
(***************************************************************************)
\* longest path (in characters) enumerated for the routing function
MaxPathLen == 5
\* longest list `git diff --name-only` reports
MaxChanged == 2
\* PUT requests the remote answers with 401 in one uploadFile call before it
\* stops doing so (the code itself has no such limit)
MaxAttempts == 2

(***************************************************************************)
(* JavaScript values.                                                      *)
(***************************************************************************)
\* null / undefined
Null == [kind |-> "null"]

isNull(v) == v.kind = "null"

Range(s) == {s[i] : i \in 1..Len(s)}

\* all sequences over S of length at most n
RECURSIVE SeqsUpTo(_, _)
SeqsUpTo(S, n) ==
    IF n = 0 THEN {<<>>}
    ELSE LET shorter == SeqsUpTo(S, n - 1)
         IN  shorter \cup {Append(s, c) : s \in {t \in shorter : Len(t) = n - 1}, c \in S}

\* String.prototype.split(sep) for a one-character separator:
\* "a/b" -> ["a","b"], "" -> [""], "a/" -> ["a",""]
RECURSIVE SplitRec(_, _, _)
SplitRec(s, sep, cur) ==
    IF s = <<>> THEN <<cur>>
    ELSE IF Head(s) = sep THEN <<cur>> \o SplitRec(Tail(s), sep, <<>>)
    ELSE SplitRec(Tail(s), sep, Append(cur, Head(s)))

split(s, sep) == SplitRec(s, sep, <<>>)

\* filePath.replace(/\\/g, '/')
normalizedPathOf(filePath) ==
    [i \in 1..Len(filePath) |-> IF filePath[i] = "\\" THEN "/" ELSE filePath[i]]

(***************************************************************************)
(* getFolderMapping: longest segment-prefix routing.                       *)
(***************************************************************************)
\* a routing that compares the leading segment only
isMatchLeadingOnly(pathParts, mappingParts) ==
    /\ Len(pathParts) >= Len(mappingParts)
    /\ pathParts[1] = mappingParts[1]

\* a routing that accepts the key at any depth of the path
isMatchAnyComponent(pathParts, mappingParts) ==
    \E k \in 0..(Len(pathParts) - Len(mappingParts)) :
        \A index \in 1..Len(mappingParts) : pathParts[k + index] = mappingParts[index]

\* mappingParts.every((part, index) => pathParts[index] === part), guarded by
\* pathParts.length >= mappingParts.length
isMatch(pathParts, mappingParts) ==
    /\ Len(pathParts) >= Len(mappingParts)
    /\ \A index \in 1..Len(mappingParts) : pathParts[index] = mappingParts[index]

\* a loop that keeps the first matching key it meets
RECURSIVE mappingLoopFirstMatch(_, _, _)
mappingLoopFirstMatch(pathParts, table, best) ==
    IF table = <<>> THEN best[1]
    ELSE LET mappingPath == Head(table).path
             mappingParts == split(mappingPath, "/")
         IN  IF isMatch(pathParts, mappingParts)
             THEN [kind |-> "object", folderId |-> Head(table).id,
                   folderName |-> mappingPath]
             ELSE mappingLoopFirstMatch(pathParts, Tail(table), best)

\* the for-of loop over Object.keys(mappings.mappings); `table` is the sequence
\* of [path, id] entries in key order, `best` is <<bestMatch, bestMatchLength>>
RECURSIVE mappingLoop(_, _, _)
mappingLoop(pathParts, table, best) ==
    IF table = <<>> THEN best[1]
    ELSE LET mappingPath == Head(table).path
             mappingParts == split(mappingPath, "/")
             better == IF isMatch(pathParts, mappingParts) /\ Len(mappingParts) > best[2]
                       THEN <<[kind |-> "object", folderId |-> Head(table).id,
                               folderName |-> mappingPath],
                              Len(mappingParts)>>
                       ELSE best
         IN  mappingLoop(pathParts, Tail(table), better)

getFolderMapping(filePath, mappings) ==
    LET normalizedPath == normalizedPathOf(filePath)
        pathParts == split(normalizedPath, "/")
    IN  mappingLoop(pathParts, mappings.mappings, <<Null, 0>>)

(***************************************************************************)
(* minimatch(file, pattern) and glob(pattern, {nodir: true}), the npm      *)
(* dependencies the resolver calls, for patterns made of literal           *)
(* characters, "*" and whole-segment "**" (default options: dot = false).  *)
(***************************************************************************)
\* a pattern that is not a string (a YAML number scalar): minimatch and glob
\* throw TypeError('invalid pattern') for it
NumberPattern == <<"42">>

throwsOnPattern(pattern) == pattern = NumberPattern

GLOBSTAR == <<"*", "*">>

dotSegment(segment) == segment # <<>> /\ Head(segment) = "."

\* one path segment against one pattern segment containing "*"
RECURSIVE wildcardMatch(_, _)
wildcardMatch(f, p) ==
    IF p = <<>> THEN f = <<>>
    ELSE IF Head(p) = "*"
         THEN wildcardMatch(f, Tail(p)) \/ (f # <<>> /\ wildcardMatch(Tail(f), p))
         ELSE f # <<>> /\ Head(f) = Head(p) /\ wildcardMatch(Tail(f), Tail(p))

segmentHit(f, p) ==
    IF "*" \in Range(p)
    THEN f # <<>> /\ (Head(p) = "*" => Head(f) # ".") /\ wildcardMatch(f, p)
    ELSE f = p

\* minimatch's matchOne over the segment lists, with its globstar loop
RECURSIVE matchOne(_, _)
RECURSIVE globstarSwallow(_, _)
matchOne(file, pattern) ==
    IF file = <<>> \/ pattern = <<>>
    THEN IF file = <<>> /\ pattern = <<>> THEN TRUE
         ELSE IF file = <<>> THEN FALSE
         ELSE Len(file) = 1 /\ file[1] = <<>>
    ELSE IF Head(pattern) = GLOBSTAR
         THEN IF Len(pattern) = 1
              THEN \A i \in 1..Len(file) : ~dotSegment(file[i])
              ELSE globstarSwallow(file, Tail(pattern))
         ELSE segmentHit(Head(file), Head(pattern)) /\ matchOne(Tail(file), Tail(pattern))

globstarSwallow(file, rest) ==
    IF file = <<>> THEN FALSE
    ELSE matchOne(file, rest) \/ (~dotSegment(Head(file)) /\ globstarSwallow(Tail(file), rest))

minimatch(file, pattern) ==
    IF pattern = <<>> THEN file = <<>>
    ELSE matchOne(split(file, "/"), split(pattern, "/"))

\* the files of the working tree that match, in traversal order
glob(pattern, files) == SelectSeq(files, LAMBDA f : minimatch(f, pattern))

(***************************************************************************)
(* The configuration document and loadFolderMapping.                       *)
(***************************************************************************)
\* a YAML sequence, a YAML string scalar and a YAML mapping (its entries in
\* key order), as js-yaml loads them
Arr(items) == [kind |-> "array", items |-> items]
Str(value) == [kind |-> "string", value |-> value]
Obj(entries) == [kind |-> "object", entries |-> entries]

isArray(v) == v.kind = "array"
\* JavaScript truthiness of a loaded value: null and "" are falsy
truthy(v) == ~isNull(v) /\ (v.kind = "string" => v.value # <<>>)

\* '**/*.md', the default of loadFolderMapping
DefaultInclude == <<"*", "*", "/", "*", ".", "m", "d">>
\* '**/*', the fallback of findAllFiles and getChangedFiles
AnyFile == <<"*", "*", "/", "*">>

\* a loader that validates the mappings and leaves the patterns as loaded
loadFolderMappingNoDefaults(doc) ==
    IF ~truthy(doc.mappings)
    THEN [kind |-> "error", error |-> "Configuration missing \"mappings\" section"]
    ELSE IF Len(doc.mappings.entries) = 0
    THEN [kind |-> "error", error |-> "No folder mappings defined in configuration"]
    ELSE [kind |-> "object",
          mappings |-> doc.mappings.entries,
          include_patterns |-> doc.include_patterns,
          exclude_patterns |-> doc.exclude_patterns]

\* the thrown Error, or the document with the pattern defaults filled in
loadFolderMapping(doc) ==
    IF ~truthy(doc.mappings)
    THEN [kind |-> "error", error |-> "Configuration missing \"mappings\" section"]
    ELSE IF Len(doc.mappings.entries) = 0
    THEN [kind |-> "error", error |-> "No folder mappings defined in configuration"]
    ELSE [kind |-> "object",
          mappings |-> doc.mappings.entries,
          include_patterns |-> IF ~truthy(doc.include_patterns)
                               THEN Arr(<<DefaultInclude>>) ELSE doc.include_patterns,
          exclude_patterns |-> IF ~truthy(doc.exclude_patterns)
                               THEN Arr(<<>>) ELSE doc.exclude_patterns]

(***************************************************************************)
(* findAllFiles and getChangedFiles.                                       *)
(***************************************************************************)
\* Array.isArray(x) ? x : [x || '**/*']
includePatternsOf(cfg) ==
    IF isArray(cfg.include_patterns) THEN cfg.include_patterns.items
    ELSE <<IF truthy(cfg.include_patterns) THEN cfg.include_patterns.value ELSE AnyFile>>

\* Array.isArray(x) ? x : (x ? [x] : [])
excludePatternsOf(cfg) ==
    IF isArray(cfg.exclude_patterns) THEN cfg.exclude_patterns.items
    ELSE IF truthy(cfg.exclude_patterns) THEN <<cfg.exclude_patterns.value>> ELSE <<>>

\* for (const pattern of includePatterns) { try { allFiles.push(...glob) } catch {} }
RECURSIVE globAll(_, _)
globAll(patterns, files) ==
    IF patterns = <<>> THEN <<>>
    ELSE (IF throwsOnPattern(Head(patterns)) THEN <<>> ELSE glob(Head(patterns), files))
         \o globAll(Tail(patterns), files)

\* [...new Set(allFiles)]: first occurrences, in insertion order
RECURSIVE uniqueOf(_)
uniqueOf(list) ==
    IF list = <<>> THEN <<>>
    ELSE LET front == uniqueOf(SubSeq(list, 1, Len(list) - 1))
             last == list[Len(list)]
         IN  IF last \in Range(front) THEN front ELSE Append(front, last)

\* an exclusion step that drops nothing
excludedByNone(file, excludePatterns) == FALSE

\* excludePatterns.some(p => { try { return minimatch(file, p) } catch { return false } })
excludedByAny(file, excludePatterns) ==
    \E i \in 1..Len(excludePatterns) :
        /\ ~throwsOnPattern(excludePatterns[i])
        /\ minimatch(file, excludePatterns[i])

findAllFiles(cfg, files) ==
    LET includePatterns == includePatternsOf(cfg)
        excludePatterns == excludePatternsOf(cfg)
        allFiles == globAll(includePatterns, files)
        uniqueFiles == uniqueOf(allFiles)
    IN  SelectSeq(uniqueFiles, LAMBDA file : ~excludedByAny(file, excludePatterns))

\* patterns.some(pattern => minimatch(file, pattern)) with no try/catch: the
\* index of the first pattern that matches or throws, 0 when none does
RECURSIVE firstDecisive(_, _, _)
firstDecisive(file, patterns, i) ==
    IF i > Len(patterns) THEN 0
    ELSE IF throwsOnPattern(patterns[i]) \/ minimatch(file, patterns[i]) THEN i
    ELSE firstDecisive(file, patterns, i + 1)

someThrows(file, patterns) ==
    LET i == firstDecisive(file, patterns, 1) IN i > 0 /\ throwsOnPattern(patterns[i])

someMatches(file, patterns) ==
    LET i == firstDecisive(file, patterns, 1) IN i > 0 /\ ~throwsOnPattern(patterns[i])

\* the filter callback of getChangedFiles throws for this file
filterThrows(file, includePatterns, excludePatterns) ==
    \/ someThrows(file, includePatterns)
    \/ someMatches(file, includePatterns) /\ someThrows(file, excludePatterns)

\* a filter callback that tests the include patterns only
filterKeepsIncluded(file, includePatterns, excludePatterns) ==
    someMatches(file, includePatterns)

\* the filter callback's return value, when it does not throw
filterKeeps(file, includePatterns, excludePatterns) ==
    someMatches(file, includePatterns) /\ ~someMatches(file, excludePatterns)

\* a resolver that fails the run when change detection fails
fallbackEmpty(cfg, files) == <<>>

\* the catch block of getChangedFiles: return findAllFiles(config)
fallback(cfg, files) == findAllFiles(cfg, files)

\* a resolver that asks git whatever the run context is
getChangedFilesAnyContext(cfg, e, gitResult, files) ==
    IF ~gitResult.ok
    THEN [files |-> findAllFiles(cfg, files), mode |-> "FullScan", detection |-> "error"]
    ELSE [files |-> SelectSeq(gitResult.files,
                        LAMBDA file : filterKeeps(file, includePatternsOf(cfg),
                                                  excludePatternsOf(cfg))),
          mode |-> "Incremental", detection |-> "ok"]

\* getChangedFiles: [files, mode, detection]; mode is the branch that produced
\* the list, detection is "none" (not attempted), "ok" or "error".
\* gitResult.files is output.trim().split('\n').filter(file => file): the paths
\* git names, whether or not they still exist in the working tree
getChangedFiles(cfg, e, gitResult, files) ==
    IF ~e.GITHUB_ACTIONS
    THEN [files |-> findAllFiles(cfg, files), mode |-> "FullScan", detection |-> "none"]
    ELSE IF e.GITHUB_EVENT_NAME \notin {"push", "pull_request"}
    THEN [files |-> findAllFiles(cfg, files), mode |-> "FullScan", detection |-> "none"]
    ELSE IF ~gitResult.ok
    THEN [files |-> fallback(cfg, files), mode |-> "FullScan", detection |-> "error"]
    ELSE LET changedFiles == gitResult.files
             includePatterns == includePatternsOf(cfg)
             excludePatterns == excludePatternsOf(cfg)
         IN  IF Len(changedFiles) = 0
             THEN [files |-> <<>>, mode |-> "Incremental", detection |-> "ok"]
             ELSE IF \E i \in 1..Len(changedFiles) :
                        filterThrows(changedFiles[i], includePatterns, excludePatterns)
             THEN [files |-> fallback(cfg, files), mode |-> "FullScan", detection |-> "ok"]
             ELSE [files |-> SelectSeq(changedFiles,
                                 LAMBDA file : filterKeeps(file, includePatterns, excludePatterns)),
                   mode |-> "Incremental", detection |-> "ok"]

(***************************************************************************)
(* The inputs the model runs on.  Paths are abbreviated: d = docs,         *)
(* p = api, g = guides, n = notes, t = draft.                              *)
(***************************************************************************)
DocsApiSpec == <<"d", "/", "p", "/", "s", ".", "m", "d">>
DocsX       == <<"d", "/", "x", ".", "m", "d">>
DocsText    == <<"d", "/", "r", ".", "t", "x">>
GuidesIntro == <<"g", "/", "i", ".", "m", "d">>
NotesDraftX == <<"n", "/", "t", "/", "x", ".", "m", "d">>
\* a file removed by the commit under inspection: git names it, the tree lacks it
DocsGone    == <<"d", "/", "o", ".", "m", "d">>

\* docs/archive/x.md: routed to the docs folder under the name x.md, like docs/x.md
DocsSubX    == <<"d", "/", "z", "/", "x", ".", "m", "d">>
\* the content of an item the drive held before the run
OldContent  == <<"o", "l", "d">>

KeyDocs    == <<"d">>
KeyDocsApi == <<"d", "/", "p">>
DocsTable  == <<[path |-> KeyDocs, id |-> "F1"], [path |-> KeyDocsApi, id |-> "F2"]>>

ExcludeDraft == <<"*", "*", "/", "t", "/", "*", "*">>
DocsTree     == <<"d", "/", "*", "*">>

EventNames == {"push", "pull_request", "workflow_dispatch", "schedule"}

\* the uploadFile call in flight: none
NoCall == [active |-> FALSE]

\* step 2 before it has begun
NoStep2 == [pdfFiles |-> <<>>, idx |-> 0, successCount |-> 0, errorCount |-> 0,
            skippedCount |-> 0, log |-> <<>>]

RunStart ==
    /\ pc = "start"
    /\ config = Null
    /\ mode = [mode |-> "none", detection |-> "none"]
    /\ allChangedFiles = <<>>
    /\ idx = 0
    /\ mapping = Null
    /\ successCount = 0
    /\ errorCount = 0
    /\ skippedCount = 0
    /\ accessToken = 0
    /\ refreshToken = 0
    /\ issued = 0
    /\ remote = {}
    /\ call = NoCall
    /\ fileExists = FALSE
    /\ log = <<>>
    /\ step2 = NoStep2
    /\ inflight = <<>>

(***************************************************************************)
(* main, up to the end of step 1.                                          *)
(***************************************************************************)
\* a main that goes on with an empty table when loadFolderMapping throws
LoadConfigLenient ==
    /\ pc = "start"
    /\ LET loaded == loadFolderMapping(yaml)
       IN  config' = IF loaded.kind = "error"
                     THEN [kind |-> "object", mappings |-> <<>>,
                           include_patterns |-> Arr(<<DefaultInclude>>),
                           exclude_patterns |-> Arr(<<>>)]
                     ELSE loaded
    /\ pc' = "resolve"
    /\ UNCHANGED <<yaml, env, tree, git, step2, inflight, mode, allChangedFiles, idx, mapping,
                   successCount, errorCount, skippedCount, accessToken,
                   refreshToken, issued, remote, call, fileExists, log>>

\* const config = await loadFolderMapping(); a throw reaches main's catch,
\* which calls process.exit(1)
LoadConfig ==
    /\ pc = "start"
    /\ LET loaded == loadFolderMapping(yaml)
       IN  IF loaded.kind = "error"
           THEN /\ pc' = "fatal"
                /\ UNCHANGED config
           ELSE /\ pc' = "resolve"
                /\ config' = loaded
    /\ UNCHANGED <<yaml, env, tree, git, step2, inflight, mode, allChangedFiles, idx, mapping,
                   successCount, errorCount, skippedCount, accessToken,
                   refreshToken, issued, remote, call, fileExists, log>>

\* const allChangedFiles = await getChangedFiles(config); if (length > 0) { loop }
ResolveChangeSet ==
    /\ pc = "resolve"
    /\ LET resolved == getChangedFiles(config, env, git, tree)
       IN  /\ allChangedFiles' = resolved.files
           /\ mode' = [mode |-> resolved.mode, detection |-> resolved.detection]
           /\ pc' = IF Len(resolved.files) > 0 THEN "loop" ELSE "step1_done"
    /\ idx' = 1
    /\ UNCHANGED <<yaml, env, tree, git, step2, inflight, config, mapping, successCount, errorCount,
                   skippedCount, accessToken, refreshToken, issued, remote, call,
                   fileExists, log>>

filePath == allChangedFiles[idx]

\* const mapping = getFolderMapping(filePath, config)
ResolveDestination ==
    /\ pc = "loop"
    /\ idx <= Len(allChangedFiles)
    /\ mapping' = getFolderMapping(filePath, config)
    /\ pc' = "mapped"
    /\ UNCHANGED <<yaml, env, tree, git, step2, inflight, config, mode, allChangedFiles, idx,
                   successCount, errorCount, skippedCount, accessToken,
                   refreshToken, issued, remote, call, fileExists, log>>

\* the for-of loop is exhausted: the step 1 summary is printed
LoopExit ==
    /\ pc = "loop"
    /\ idx > Len(allChangedFiles)
    /\ pc' = "step1_done"
    /\ UNCHANGED <<yaml, env, tree, git, step2, inflight, config, mode, allChangedFiles, idx, mapping,
                   successCount, errorCount, skippedCount, accessToken,
                   refreshToken, issued, remote, call, fileExists, log>>

\* what the loop remembers of a finished file: `made` is the bookkeeping of
\* the uploadFile call that ended (NoCall for a file that was skipped)
LogEntry(outcome, made) ==
    [file |-> filePath, outcome |-> outcome, mapped |-> ~isNull(mapping), call |-> made]

\* an iteration that stops the loop at its first failure
NextIterationAbortOnFailure(outcome, made) ==
    /\ idx' = idx + 1
    /\ pc' = IF outcome = "failed" THEN "step1_done" ELSE "loop"
    /\ log' = Append(log, LogEntry(outcome, made))
    /\ call' = NoCall
    /\ fileExists' = FALSE

\* the iteration ends: the for-of loop moves to the next file
NextIteration(outcome, made) ==
    /\ idx' = idx + 1
    /\ pc' = "loop"
    /\ log' = Append(log, LogEntry(outcome, made))
    /\ call' = NoCall
    /\ fileExists' = FALSE

\* a catch block that forgets to count
CountFailureNot == UNCHANGED errorCount

\* catch (error) { errorCount++ }
CountFailure == errorCount' = errorCount + 1

\* step 2: the PDF the for-of loop over pdfFiles is at
pdfPath == step2.pdfFiles[step2.idx]

\* step 2: an iteration of the loop over pdfFiles ends; the counters are the
\* successCount, errorCount and skippedCount declared inside step 2
PdfNextIteration(outcome, made) ==
    /\ step2' = [step2 EXCEPT
                   !.idx = @ + 1,
                   !.successCount = IF outcome = "uploaded" THEN @ + 1 ELSE @,
                   !.errorCount = IF outcome = "failed" THEN @ + 1 ELSE @,
                   !.skippedCount = IF outcome = "skipped" THEN @ + 1 ELSE @,
                   !.log = Append(@, [file |-> pdfPath, outcome |-> outcome,
                                      mapped |-> ~isNull(mapping), call |-> made])]
    /\ pc' = "pdf_loop"
    /\ call' = NoCall
    /\ fileExists' = FALSE
    /\ UNCHANGED <<idx, log, successCount, errorCount, skippedCount>>

\* uploadFile rejects: the catch block of the loop body that called it runs
LoopCatch(made) ==
    IF made.step = 2
    THEN PdfNextIteration("failed", made)
    ELSE /\ CountFailure
         /\ NextIteration("failed", made)
         /\ UNCHANGED <<successCount, skippedCount, step2>>

\* await uploader.uploadFile(...) resolves: successCount++ in the loop that
\* called it
LoopSuccess(made) ==
    IF made.step = 2
    THEN PdfNextIteration("uploaded", made)
    ELSE /\ successCount' = successCount + 1
         /\ NextIteration("uploaded", made)
         /\ UNCHANGED <<errorCount, skippedCount, step2>>

\* an unmapped file handed to the uploader all the same
SkipAsUpload ==
    /\ successCount' = successCount + 1
    /\ UNCHANGED <<errorCount, skippedCount>>

\* skippedCount++
CountSkip ==
    /\ skippedCount' = skippedCount + 1
    /\ UNCHANGED <<successCount, errorCount>>

\* if (!mapping) { skippedCount++; continue; }
SkipFile ==
    /\ pc = "mapped"
    /\ isNull(mapping)
    /\ CountSkip
    /\ NextIteration("skipped", NoCall)
    /\ UNCHANGED <<yaml, env, tree, git, step2, inflight, config, mode, allChangedFiles, mapping,
                   accessToken, refreshToken, issued, remote>>

\* a file name that keeps the folders of the local path
basenameWithFolders(file) == file

\* path.basename(filePath)
basename(file) == LET parts == split(file, "/") IN parts[Len(parts)]

\* the drive holds an item of that name in that folder
remoteHas(folderId, fileName) ==
    \E e \in remote : e.folderId = folderId /\ e.fileName = fileName

\* uploader.uploadFile(...) called without await: the loop moves on at once
CallUploadFileNotAwaited ==
    /\ pc = "mapped"
    /\ ~isNull(mapping)
    /\ call' = [active |-> TRUE, step |-> 1, filePath |-> filePath,
                folderId |-> mapping.folderId,
                fileName |-> basename(filePath), hadToken |-> accessToken # 0,
                existed |-> remoteHas(mapping.folderId, basename(filePath)),
                invocations |-> 1, puts |-> 0, unauthorized |-> 0,
                authCalls |-> 0, reauths |-> 0, lastPut |-> "none",
                failure |-> "none", auths |-> <<>>]
    /\ idx' = idx + 1
    /\ pc' = "loop"
    /\ UNCHANGED <<yaml, env, tree, git, step2, inflight, config, mode, allChangedFiles, mapping,
                   successCount, errorCount, skippedCount, accessToken,
                   refreshToken, issued, remote, fileExists, log>>

\* await uploader.uploadFile(filePath, mapping.folderId, fileName) is entered
CallUploadFile ==
    /\ pc = "mapped"
    /\ ~isNull(mapping)
    /\ call' = [active |-> TRUE, step |-> 1, filePath |-> filePath,
                folderId |-> mapping.folderId,
                fileName |-> basename(filePath), hadToken |-> accessToken # 0,
                existed |-> remoteHas(mapping.folderId, basename(filePath)),
                invocations |-> 1, puts |-> 0, unauthorized |-> 0,
                authCalls |-> 0, reauths |-> 0, lastPut |-> "none",
                failure |-> "none", auths |-> <<>>]
    /\ pc' = "uf_entry"
    /\ UNCHANGED <<yaml, env, tree, git, step2, inflight, config, mode, allChangedFiles, idx, mapping,
                   successCount, errorCount, skippedCount, accessToken,
                   refreshToken, issued, remote, fileExists, log>>

(***************************************************************************)
(* OneDriveUploader: authenticate and uploadFile.                          *)
(***************************************************************************)
\* response.data of a successful token request: a new access token, with or
\* without a new refresh token (0 stands for an absent field)
TokenResponses ==
    {[access_token |-> issued + 1, refresh_token |-> r] : r \in {0, issued + 1}}

\* the token request authenticate() sends, with the answer it got: the body
\* carries this.refreshToken as it is when the request is built
TokenExchange(response) ==
    [sent |-> refreshToken, ok |-> TRUE, access_token |-> response.access_token,
     refresh_token |-> response.refresh_token]

\* the same request, rejected
TokenExchangeFailed ==
    [sent |-> refreshToken, ok |-> FALSE, access_token |-> 0, refresh_token |-> 0]

\* an authenticate() that copies the response's refresh_token field, present
\* or not
AuthenticatedCopiesRefresh(response) ==
    /\ accessToken' = response.access_token
    /\ refreshToken' = response.refresh_token
    /\ issued' = issued + 1

\* an authenticate() that returns the new token without storing it
AuthenticatedNotStored(response) ==
    /\ UNCHANGED accessToken
    /\ refreshToken' = IF response.refresh_token # 0
                       THEN response.refresh_token ELSE refreshToken
    /\ issued' = issued + 1

\* the body of authenticate() after a successful POST
Authenticated(response) ==
    /\ accessToken' = response.access_token
    /\ refreshToken' = IF response.refresh_token # 0
                       THEN response.refresh_token ELSE refreshToken
    /\ issued' = issued + 1

\* a session that never finds its token
holdsTokenNever == FALSE

\* this.accessToken is truthy
holdsToken == accessToken # 0

\* if (!this.accessToken) skipped: the session holds a token
EnterWithToken ==
    /\ pc = "uf_entry"
    /\ holdsToken
    /\ pc' = "uf_read"
    /\ UNCHANGED <<yaml, env, tree, git, step2, inflight, config, mode, allChangedFiles, idx, mapping,
                   successCount, errorCount, skippedCount, accessToken,
                   refreshToken, issued, remote, call, fileExists, log>>

\* if (!this.accessToken) { await this.authenticate(); } succeeds
AcquireToken ==
    /\ pc = "uf_entry"
    /\ ~holdsToken
    /\ \E response \in TokenResponses :
         /\ Authenticated(response)
         /\ call' = [call EXCEPT !.authCalls = @ + 1,
                                 !.auths = Append(@, TokenExchange(response))]
    /\ pc' = "uf_read"
    /\ UNCHANGED <<yaml, env, tree, git, step2, inflight, config, mode, allChangedFiles, idx, mapping,
                   successCount, errorCount, skippedCount, remote, fileExists, log>>

\* a failed first authentication that ends the run
AcquireTokenFailsFatal ==
    /\ pc = "uf_entry"
    /\ ~holdsToken
    /\ pc' = "fatal"
    /\ UNCHANGED <<yaml, env, tree, git, step2, inflight, config, mode, allChangedFiles, idx, mapping,
                   successCount, errorCount, skippedCount, accessToken,
                   refreshToken, issued, remote, call, fileExists, log>>

\* the same authenticate() throws: uploadFile rejects before its try block
AcquireTokenFails ==
    /\ pc = "uf_entry"
    /\ ~holdsToken
    /\ LoopCatch([call EXCEPT !.authCalls = @ + 1, !.failure = "authenticate",
                               !.auths = Append(@, TokenExchangeFailed)])
    /\ UNCHANGED <<yaml, env, tree, git, inflight, config, mode, allChangedFiles, mapping,
                   accessToken, refreshToken, issued, remote>>

\* const fileContent = await fs.readFile(filePath)
ReadFile ==
    /\ pc = "uf_read"
    /\ call.filePath \in Range(tree)
    /\ pc' = "uf_probe"
    /\ UNCHANGED <<yaml, env, tree, git, step2, inflight, config, mode, allChangedFiles, idx, mapping,
                   successCount, errorCount, skippedCount, accessToken,
                   refreshToken, issued, remote, call, fileExists, log>>

\* readFile rejects (ENOENT for a path the tree lacks, EACCES, ...): the catch
\* block sees no response.status and rethrows
ReadFileFails ==
    /\ pc = "uf_read"
    /\ LoopCatch([call EXCEPT !.failure = "read"])
    /\ UNCHANGED <<yaml, env, tree, git, inflight, config, mode, allChangedFiles, mapping,
                   accessToken, refreshToken, issued, remote>>

\* the existence probe: axios.get in its own try/catch, every error swallowed
ProbeExists ==
    /\ pc = "uf_probe"
    /\ \E answer \in {"by_state", "unauthorized", "error"} :
         fileExists' = (answer = "by_state" /\ remoteHas(call.folderId, call.fileName))
    /\ pc' = "uf_put"
    /\ UNCHANGED <<yaml, env, tree, git, step2, inflight, config, mode, allChangedFiles, idx, mapping,
                   successCount, errorCount, skippedCount, accessToken,
                   refreshToken, issued, remote, call, log>>

\* a drive on which every PUT adds an item beside the ones it holds
remoteAfterPutAdds(folderId, fileName, content) ==
    remote \cup {[folderId |-> folderId, fileName |-> fileName, content |-> content]}

\* the drive after PUT .../items/{folderId}:/{fileName}:/content, which creates
\* the item or replaces the one of that name; the content of a file is
\* identified by the path it was read from
remoteAfterPut(folderId, fileName, content) ==
    {e \in remote : ~(e.folderId = folderId /\ e.fileName = fileName)}
    \cup {[folderId |-> folderId, fileName |-> fileName, content |-> content]}

\* axios.put resolves: uploadFile returns response.data through every frame
PutSucceeds ==
    /\ pc = "uf_put"
    /\ remote' = remoteAfterPut(call.folderId, call.fileName, call.filePath)
    /\ LoopSuccess([call EXCEPT !.puts = @ + 1, !.lastPut = "ok"])
    /\ UNCHANGED <<yaml, env, tree, git, inflight, config, mode, allChangedFiles, mapping,
                   accessToken, refreshToken, issued>>

\* a catch block that re-authenticates and retries after any PUT error
PutFailsReauthenticates ==
    /\ pc = "uf_put"
    /\ call.puts < MaxAttempts
    /\ call' = [call EXCEPT !.puts = @ + 1, !.lastPut = "error"]
    /\ pc' = "uf_reauth"
    /\ UNCHANGED <<yaml, env, tree, git, step2, inflight, config, mode, allChangedFiles,
                   idx, mapping, successCount, errorCount, skippedCount, accessToken,
                   refreshToken, issued, remote, fileExists, log>>

\* axios.put rejects with a status other than 401 (or with no response): the
\* catch block logs and rethrows
PutFails ==
    /\ pc = "uf_put"
    /\ LoopCatch([call EXCEPT !.puts = @ + 1, !.lastPut = "error", !.failure = "put"])
    /\ UNCHANGED <<yaml, env, tree, git, inflight, config, mode, allChangedFiles, mapping,
                   accessToken, refreshToken, issued, remote>>

\* axios.put rejects with 401: the catch block goes on to re-authenticate
PutUnauthorized ==
    /\ pc = "uf_put"
    /\ call.unauthorized < MaxAttempts
    /\ call' = [call EXCEPT !.puts = @ + 1, !.unauthorized = @ + 1,
                            !.lastPut = "unauthorized"]
    /\ pc' = "uf_reauth"
    /\ UNCHANGED <<yaml, env, tree, git, step2, inflight, config, mode, allChangedFiles, idx, mapping,
                   successCount, errorCount, skippedCount, accessToken,
                   refreshToken, issued, remote, fileExists, log>>

\* await this.authenticate() in the catch block succeeds; then
\* return this.uploadFile(filePath, folderId, fileName): the recursive call
\* starts at the top of uploadFile
Reauthenticate ==
    /\ pc = "uf_reauth"
    /\ \E response \in TokenResponses :
         /\ Authenticated(response)
         /\ call' = [call EXCEPT !.authCalls = @ + 1, !.reauths = @ + 1,
                                 !.invocations = @ + 1,
                                 !.auths = Append(@, TokenExchange(response))]
    /\ pc' = "uf_entry"
    /\ UNCHANGED <<yaml, env, tree, git, step2, inflight, config, mode, allChangedFiles, idx, mapping,
                   successCount, errorCount, skippedCount, remote, fileExists, log>>

\* authenticate() throws inside the catch block: uploadFile rejects
ReauthenticateFails ==
    /\ pc = "uf_reauth"
    /\ LoopCatch([call EXCEPT !.authCalls = @ + 1, !.reauths = @ + 1,
                               !.failure = "authenticate",
                               !.auths = Append(@, TokenExchangeFailed)])
    /\ UNCHANGED <<yaml, env, tree, git, inflight, config, mode, allChangedFiles, mapping,
                   accessToken, refreshToken, issued, remote>>

\* PutUnauthorized once the bookkeeping has counted MaxAttempts answers of
\* 401: the remote answers 401 again, the counters stay at the bound
PutUnauthorizedAgain ==
    /\ pc = "uf_put"
    /\ call.unauthorized >= MaxAttempts
    /\ call' = [call EXCEPT !.lastPut = "unauthorized"]
    /\ pc' = "uf_reauth"
    /\ UNCHANGED <<yaml, env, tree, git, step2, inflight, config, mode, allChangedFiles, idx, mapping,
                   successCount, errorCount, skippedCount, accessToken,
                   refreshToken, issued, remote, fileExists, log>>

\* Reauthenticate once the bookkeeping has counted MaxAttempts of them: the
\* token endpoint answers again, the new token is stored, and the recursive
\* call starts at the top of uploadFile; the tokens are no longer numbered
ReauthenticateAgain ==
    /\ pc = "uf_reauth"
    /\ call.reauths >= MaxAttempts
    /\ accessToken' = issued
    /\ refreshToken' \in {refreshToken, issued}
    /\ pc' = "uf_entry"
    /\ UNCHANGED <<yaml, env, tree, git, step2, inflight, config, mode, allChangedFiles, idx, mapping,
                   successCount, errorCount, skippedCount, issued, remote, call,
                   fileExists, log>>

(***************************************************************************)
(* uploadFile called by a client of the exported OneDriveUploader class    *)
(* that does not await one call before it starts the next: each call is at *)
(* its own await, the session fields are shared.                           *)
(***************************************************************************)
\* the file a client call uploads, its folder and its name
ClientFile(c) == IF c = 1 THEN DocsX ELSE DocsApiSpec
ClientFolder(c) == IF c = 1 THEN "F1" ELSE "F2"

\* a call that has not been made yet; `sent` is the token its PUT carries,
\* `refreshes` lists the tokens whose 401 made it call authenticate()
ClientIdle == [pc |-> "idle", sent |-> 0, refreshes |-> <<>>]

MainIdle ==
    UNCHANGED <<yaml, env, tree, git, pc, config, mode, allChangedFiles, idx, mapping,
                successCount, errorCount, skippedCount, call, fileExists, log, step2>>

\* uploader.uploadFile(...) is called, not awaited
ClientCall(c) ==
    /\ inflight[c].pc = "idle"
    /\ inflight' = [inflight EXCEPT ![c].pc = "entry"]
    /\ MainIdle
    /\ UNCHANGED <<accessToken, refreshToken, issued, remote>>

\* if (!this.accessToken) skipped; await fs.readFile(filePath) is pending
ClientEnterWithToken(c) ==
    /\ inflight[c].pc = "entry"
    /\ holdsToken
    /\ inflight' = [inflight EXCEPT ![c].pc = "read"]
    /\ MainIdle
    /\ UNCHANGED <<accessToken, refreshToken, issued, remote>>

\* if (!this.accessToken) await this.authenticate(): the token request is sent
ClientAcquireBegin(c) ==
    /\ inflight[c].pc = "entry"
    /\ ~holdsToken
    /\ inflight' = [inflight EXCEPT ![c].pc = "acquiring"]
    /\ MainIdle
    /\ UNCHANGED <<accessToken, refreshToken, issued, remote>>

\* the token request is answered: authenticate() stores the token and returns
ClientAcquireEnd(c) ==
    /\ inflight[c].pc = "acquiring"
    /\ \E response \in TokenResponses : Authenticated(response)
    /\ inflight' = [inflight EXCEPT ![c].pc = "read"]
    /\ MainIdle
    /\ UNCHANGED remote

\* the token request fails: uploadFile rejects
ClientAcquireFails(c) ==
    /\ inflight[c].pc = "acquiring"
    /\ inflight' = [inflight EXCEPT ![c].pc = "failed"]
    /\ MainIdle
    /\ UNCHANGED <<accessToken, refreshToken, issued, remote>>

\* readFile resolves; the existence probe is sent
ClientRead(c) ==
    /\ inflight[c].pc = "read"
    /\ inflight' = [inflight EXCEPT ![c].pc = "probe"]
    /\ MainIdle
    /\ UNCHANGED <<accessToken, refreshToken, issued, remote>>

\* the probe is answered either way; the PUT is sent with the token the
\* session holds at that moment
ClientProbe(c) ==
    /\ inflight[c].pc = "probe"
    /\ inflight' = [inflight EXCEPT ![c].pc = "put", ![c].sent = accessToken]
    /\ MainIdle
    /\ UNCHANGED <<accessToken, refreshToken, issued, remote>>

\* the PUT is answered 2xx: uploadFile resolves
ClientPutSucceeds(c) ==
    /\ inflight[c].pc = "put"
    /\ remote' = remoteAfterPut(ClientFolder(c), basename(ClientFile(c)), ClientFile(c))
    /\ inflight' = [inflight EXCEPT ![c].pc = "done"]
    /\ MainIdle
    /\ UNCHANGED <<accessToken, refreshToken, issued>>

\* the PUT fails with something other than 401: uploadFile rejects
ClientPutFails(c) ==
    /\ inflight[c].pc = "put"
    /\ inflight' = [inflight EXCEPT ![c].pc = "failed"]
    /\ MainIdle
    /\ UNCHANGED <<accessToken, refreshToken, issued, remote>>

\* the PUT is answered 401: the catch block calls this.authenticate(), which
\* sends the token request
ClientPutUnauthorized(c) ==
    /\ inflight[c].pc = "put"
    /\ Len(inflight[c].refreshes) < MaxAttempts
    /\ inflight' = [inflight EXCEPT ![c].pc = "refreshing",
                                    ![c].refreshes = Append(@, inflight[c].sent)]
    /\ MainIdle
    /\ UNCHANGED <<accessToken, refreshToken, issued, remote>>

\* the token request of the catch block is answered; return this.uploadFile(...)
ClientRefreshEnd(c) ==
    /\ inflight[c].pc = "refreshing"
    /\ \E response \in TokenResponses : Authenticated(response)
    /\ inflight' = [inflight EXCEPT ![c].pc = "entry"]
    /\ MainIdle
    /\ UNCHANGED remote

\* the token request of the catch block fails: uploadFile rejects
ClientRefreshFails(c) ==
    /\ inflight[c].pc = "refreshing"
    /\ inflight' = [inflight EXCEPT ![c].pc = "failed"]
    /\ MainIdle
    /\ UNCHANGED <<accessToken, refreshToken, issued, remote>>

(***************************************************************************)
(* uploadFile as a function of the answers its requests get: one step of a *)
(* call from one await to the next.  `st` is the session and the call      *)
(* ([pc, accessToken, refreshToken, issued, remote, fileExists, ...]), `a`   *)
(* the answers the token endpoint, the file system and the drive would     *)
(* give at this point ([auth, read, probe, put]).                          *)
(***************************************************************************)
ProbeAnswers == {"by_state", "unauthorized", "error"}

Answers ==
    [auth : {"fail", "token", "token_and_refresh"}, read : {"ok", "fail"},
     probe : ProbeAnswers, put : {"ok", "unauthorized", "error"}]

\* authenticate() with the answer a.auth: the tokens stored, or the throw
authenticate(st, a) ==
    IF a.auth = "fail"
    THEN [st EXCEPT !.pc = "rejected", !.authCalls = @ + 1]
    ELSE [st EXCEPT !.accessToken = st.issued + 1,
                    !.refreshToken = IF a.auth = "token_and_refresh"
                                     THEN st.issued + 1 ELSE @,
                    !.issued = @ + 1,
                    !.authCalls = @ + 1]

\* a probe whose 401 reaches the catch block of uploadFile
probeStepRethrows(st, a) ==
    IF a.probe = "unauthorized"
    THEN [st EXCEPT !.pc = "uf_reauth", !.probed = a.probe]
    ELSE [st EXCEPT !.pc = "uf_put", !.probed = a.probe,
                    !.fileExists = (a.probe = "by_state"
                                    /\ \E e \in st.remote : /\ e.folderId = st.folderId
                                                            /\ e.fileName = st.fileName)]

\* the existence probe in its own try/catch: fileExists is set, nothing else
probeStep(st, a) ==
    [st EXCEPT !.pc = "uf_put", !.probed = a.probe,
               !.fileExists = (a.probe = "by_state"
                               /\ \E e \in st.remote : /\ e.folderId = st.folderId
                                                       /\ e.fileName = st.fileName)]

uploadFile(st, a) ==
    CASE st.pc = "uf_entry" ->
            IF st.accessToken # 0 THEN [st EXCEPT !.pc = "uf_read"]
            ELSE LET after == authenticate(st, a)
                 IN  IF after.pc = "rejected" THEN after ELSE [after EXCEPT !.pc = "uf_read"]
      [] st.pc = "uf_read" ->
            [st EXCEPT !.pc = IF a.read = "ok" THEN "uf_probe" ELSE "rejected"]
      [] st.pc = "uf_probe" -> probeStep(st, a)
      [] st.pc = "uf_put" ->
            CASE a.put = "ok" ->
                    [st EXCEPT !.pc = "resolved", !.puts = @ + 1,
                               !.remote = {e \in @ : ~(e.folderId = st.folderId
                                                       /\ e.fileName = st.fileName)}
                                          \cup {[folderId |-> st.folderId,
                                                 fileName |-> st.fileName,
                                                 content |-> st.filePath]}]
              [] a.put = "unauthorized" ->
                    [st EXCEPT !.pc = "uf_reauth", !.puts = @ + 1, !.unauthorized = @ + 1]
              [] OTHER -> [st EXCEPT !.pc = "rejected", !.puts = @ + 1]
      [] st.pc = "uf_reauth" ->
            LET after == authenticate(st, a)
            IN  IF after.pc = "rejected" THEN [after EXCEPT !.reauths = @ + 1]
                ELSE [after EXCEPT !.pc = "uf_entry", !.reauths = @ + 1]
      [] OTHER -> st

\* the call has resolved or rejected
returned(st) == st.pc \in {"resolved", "rejected"}

\* two executions of one uploadFile call move on together: each request of
\* the one gets the answer the same request of the other gets, except the
\* probe, which is answered for each on its own
StepBoth ==
    /\ \E r \in DOMAIN inflight : ~returned(inflight[r])
    /\ \E a \in Answers, otherProbe \in ProbeAnswers :
         /\ \A r \in DOMAIN inflight :
              (inflight[r].pc = "uf_put" /\ a.put = "unauthorized")
                  => inflight[r].unauthorized < MaxAttempts
         /\ inflight' = [r \in DOMAIN inflight |->
                           uploadFile(inflight[r],
                                      IF r = 1 THEN a ELSE [a EXCEPT !.probe = otherProbe])]
    /\ MainIdle
    /\ UNCHANGED <<accessToken, refreshToken, issued, remote>>

(***************************************************************************)
(* main, step 2: markdown files converted to PDF and uploaded.             *)
(***************************************************************************)
\* String.prototype.toLowerCase, on the letters that occur in the extensions
lowerChar(c) ==
    CASE c = "M" -> "m"
      [] c = "D" -> "d"
      [] OTHER -> c

toLowerCase(str) == [i \in 1..Len(str) |-> lowerChar(str[i])]

\* path.extname: from the last "." of the basename on, "" when the basename
\* has none or begins with its only one
extname(file) ==
    LET base == basename(file)
        dots == {i \in 1..Len(base) : base[i] = "."}
    IN  IF dots = {} THEN <<>>
        ELSE LET last == CHOOSE i \in dots : \A j \in dots : j <= i
             IN  IF last = 1 THEN <<>> ELSE SubSeq(base, last, Len(base))

markdownExtensions ==
    {<<".", "m", "d">>, <<".", "m", "a", "r", "k", "d", "o", "w", "n">>}

\* allChangedFiles.filter(file => markdownExtensions.includes(extname(file).toLowerCase()))
markdownFilesOf(files) ==
    SelectSeq(files, LAMBDA file : toLowerCase(extname(file)) \in markdownExtensions)

\* str ends with suffix, compared without regard to case
endsWithIgnoringCase(str, suffix) ==
    /\ Len(str) >= Len(suffix)
    /\ toLowerCase(SubSeq(str, Len(str) - Len(suffix) + 1, Len(str))) = suffix

\* markdownFile.replace(/\.(md|markdown)$/i, '.pdf')
pdfFileOf(markdownFile) ==
    LET cut(n) == SubSeq(markdownFile, 1, Len(markdownFile) - n) \o <<".", "p", "d", "f">>
    IN  IF endsWithIgnoringCase(markdownFile, <<".", "m", "d">>) THEN cut(3)
        ELSE IF endsWithIgnoringCase(markdownFile,
                                     <<".", "m", "a", "r", "k", "d", "o", "w", "n">>)
        THEN cut(9)
        ELSE markdownFile

\* convertAllMarkdownToPdf: the PDF names of the conversions that succeeded,
\* in the order of markdownFiles; `converted` is the set of their positions
RECURSIVE convertedFiles(_, _, _)
convertedFiles(markdownFiles, converted, i) ==
    IF i > Len(markdownFiles) THEN <<>>
    ELSE (IF i \in converted THEN <<pdfFileOf(markdownFiles[i])>> ELSE <<>>)
         \o convertedFiles(markdownFiles, converted, i + 1)

\* step 2 up to its loop: the markdown files among allChangedFiles are handed
\* to pandoc one by one; a conversion fails or writes the PDF beside its
\* source, and a source the working tree lacks cannot be converted
ConvertMarkdown ==
    /\ pc = "step1_done"
    /\ LET markdownFiles == markdownFilesOf(allChangedFiles)
       IN  IF Len(markdownFiles) = 0
           THEN /\ pc' = "done"
                /\ UNCHANGED <<tree, step2>>
           ELSE \E converted \in SUBSET {i \in 1..Len(markdownFiles) :
                                            markdownFiles[i] \in Range(tree)} :
                  LET pdfFiles == convertedFiles(markdownFiles, converted, 1)
                  IN  /\ tree' = tree \o SelectSeq(uniqueOf(pdfFiles),
                                                    LAMBDA f : f \notin Range(tree))
                      /\ step2' = [NoStep2 EXCEPT !.pdfFiles = pdfFiles, !.idx = 1]
                      /\ pc' = IF Len(pdfFiles) > 0 THEN "pdf_loop" ELSE "done"
    /\ UNCHANGED <<yaml, env, git, inflight, config, mode, allChangedFiles, idx, mapping,
                   successCount, errorCount, skippedCount, accessToken,
                   refreshToken, issued, remote, call, fileExists, log>>

\* a step 2 that sends every PDF to one default folder
PdfResolveDestinationToDefault ==
    /\ pc = "pdf_loop"
    /\ step2.idx <= Len(step2.pdfFiles)
    /\ mapping' = [kind |-> "object", folderId |-> "F0", folderName |-> <<"default">>]
    /\ pc' = "pdf_mapped"
    /\ UNCHANGED <<yaml, env, tree, git, step2, inflight, config, mode, allChangedFiles,
                   idx, successCount, errorCount, skippedCount, accessToken,
                   refreshToken, issued, remote, call, fileExists, log>>

\* const mapping = getFolderMapping(filePath, config), for a PDF
PdfResolveDestination ==
    /\ pc = "pdf_loop"
    /\ step2.idx <= Len(step2.pdfFiles)
    /\ mapping' = getFolderMapping(pdfPath, config)
    /\ pc' = "pdf_mapped"
    /\ UNCHANGED <<yaml, env, tree, git, step2, inflight, config, mode, allChangedFiles,
                   idx, successCount, errorCount, skippedCount, accessToken,
                   refreshToken, issued, remote, call, fileExists, log>>

\* the loop over pdfFiles is exhausted: the summary is printed and main returns
PdfLoopExit ==
    /\ pc = "pdf_loop"
    /\ step2.idx > Len(step2.pdfFiles)
    /\ pc' = "done"
    /\ UNCHANGED <<yaml, env, tree, git, step2, inflight, config, mode, allChangedFiles,
                   idx, mapping, successCount, errorCount, skippedCount, accessToken,
                   refreshToken, issued, remote, call, fileExists, log>>

\* if (!mapping) { skippedCount++; continue; }
PdfSkipFile ==
    /\ pc = "pdf_mapped"
    /\ isNull(mapping)
    /\ PdfNextIteration("skipped", NoCall)
    /\ UNCHANGED <<yaml, env, tree, git, inflight, config, mode, allChangedFiles, mapping,
                   accessToken, refreshToken, issued, remote>>

\* await uploader.uploadFile(filePath, mapping.folderId, fileName), for a PDF
PdfCallUploadFile ==
    /\ pc = "pdf_mapped"
    /\ ~isNull(mapping)
    /\ call' = [active |-> TRUE, step |-> 2, filePath |-> pdfPath,
                folderId |-> mapping.folderId,
                fileName |-> basename(pdfPath), hadToken |-> accessToken # 0,
                existed |-> remoteHas(mapping.folderId, basename(pdfPath)),
                invocations |-> 1, puts |-> 0, unauthorized |-> 0,
                authCalls |-> 0, reauths |-> 0, lastPut |-> "none",
                failure |-> "none", auths |-> <<>>]
    /\ pc' = "uf_entry"
    /\ UNCHANGED <<yaml, env, tree, git, step2, inflight, config, mode, allChangedFiles,
                   idx, mapping, successCount, errorCount, skippedCount, accessToken,
                   refreshToken, issued, remote, fileExists, log>>

\* the process has ended; main's catch has called process.exit(1)
ended == pc \in {"done", "fatal"}
failureSignal == pc = "fatal"

(***************************************************************************)
(* Specifications.                                                         *)
(***************************************************************************)
Envs ==
    {[GITHUB_ACTIONS |-> FALSE, GITHUB_EVENT_NAME |-> "push"]}
    \cup {[GITHUB_ACTIONS |-> TRUE, GITHUB_EVENT_NAME |-> e] : e \in EventNames}

\* the lists git can name: paths of the tree and the deleted one
GitResults(universe) ==
    {[ok |-> FALSE, files |-> <<>>]}
    \cup {[ok |-> TRUE, files |-> l] : l \in SeqsUpTo(universe, MaxChanged)}

\* --- the whole run -------------------------------------------------------
Init ==
    /\ RunStart
    /\ yaml \in {[mappings |-> Null, include_patterns |-> Null, exclude_patterns |-> Null],
                 [mappings |-> Obj(<<>>), include_patterns |-> Null,
                  exclude_patterns |-> Null],
                 [mappings |-> Obj(DocsTable), include_patterns |-> Null,
                  exclude_patterns |-> Null],
                 [mappings |-> Obj(DocsTable), include_patterns |-> Arr(<<AnyFile>>),
                  exclude_patterns |-> Arr(<<ExcludeDraft>>)]}
    /\ env \in Envs
    /\ tree \in {<<DocsApiSpec, GuidesIntro>>, <<DocsText, DocsX, NotesDraftX>>}
    /\ git \in GitResults({DocsApiSpec, GuidesIntro, DocsGone})

Next ==
    \/ LoadConfig
    \/ ResolveChangeSet
    \/ ResolveDestination
    \/ LoopExit
    \/ SkipFile
    \/ CallUploadFile
    \/ EnterWithToken
    \/ AcquireToken
    \/ AcquireTokenFails
    \/ ReadFile
    \/ ReadFileFails
    \/ ProbeExists
    \/ PutSucceeds
    \/ PutFails
    \/ PutUnauthorized
    \/ Reauthenticate
    \/ ReauthenticateFails

Spec == Init /\ [][Next]_vars

\* --- a whole run, both steps, over few inputs -----------------------------
\* docs/y.MD: a markdown file by its extension in upper case
DocsUpper == <<"d", "/", "y", ".", "M", "D">>

InitRun ==
    /\ RunStart
    /\ \/ /\ yaml = [mappings |-> Obj(DocsTable), include_patterns |-> Null,
                      exclude_patterns |-> Null]
          /\ tree = <<DocsX, GuidesIntro>>
       \/ /\ yaml = [mappings |-> Obj(DocsTable), include_patterns |-> Arr(<<AnyFile>>),
                      exclude_patterns |-> Null]
          /\ tree = <<DocsText, DocsUpper>>
       \/ /\ yaml = [mappings |-> Obj(DocsTable),
                      include_patterns |-> Arr(<<NumberPattern, DefaultInclude>>),
                      exclude_patterns |-> Null]
          /\ tree = <<DocsText, DocsX>>
    /\ env \in {[GITHUB_ACTIONS |-> FALSE, GITHUB_EVENT_NAME |-> "push"],
                [GITHUB_ACTIONS |-> TRUE, GITHUB_EVENT_NAME |-> "push"]}
    /\ git \in {[ok |-> TRUE, files |-> <<DocsGone>>],
                [ok |-> TRUE, files |-> <<DocsText>>],
                [ok |-> TRUE, files |-> <<>>]}

NextRun ==
    \/ Next
    \/ ConvertMarkdown
    \/ PdfResolveDestination
    \/ PdfLoopExit
    \/ PdfSkipFile
    \/ PdfCallUploadFile

SpecRun == InitRun /\ [][NextRun]_vars

\* --- step 1 with a remote that may answer 401 without end ------------------
InitExpiry ==
    /\ RunStart
    /\ yaml = [mappings |-> Obj(DocsTable), include_patterns |-> Null,
               exclude_patterns |-> Null]
    /\ env \in Envs
    /\ tree \in {<<DocsX, GuidesIntro>>, <<DocsApiSpec, DocsX>>}
    /\ git \in GitResults({DocsX, GuidesIntro})

\* the steps of Next, the bookkeeping of one call stopping at MaxAttempts
NextExpiry ==
    \/ LoadConfig
    \/ ResolveChangeSet
    \/ ResolveDestination
    \/ LoopExit
    \/ SkipFile
    \/ CallUploadFile
    \/ EnterWithToken
    \/ AcquireToken
    \/ AcquireTokenFails
    \/ ReadFile
    \/ ReadFileFails
    \/ ProbeExists
    \/ PutSucceeds
    \/ PutFails
    \/ PutUnauthorized
    \/ PutUnauthorizedAgain
    \/ (pc = "uf_reauth" /\ call.reauths < MaxAttempts /\ Reauthenticate)
    \/ ReauthenticateAgain
    \/ ReauthenticateFails

\* every request returns: a step that can be taken is taken
SpecExpiry == InitExpiry /\ [][NextExpiry]_vars /\ WF_vars(NextExpiry)

\* --- two uploadFile calls in flight on one session --------------------------
Clients == {1, 2}

\* the module is loaded with require(): main does not run; the session holds
\* no token yet, or the token of an earlier call
InitConcurrent ==
    /\ pc = "required"
    /\ yaml = [mappings |-> Obj(DocsTable), include_patterns |-> Null,
               exclude_patterns |-> Null]
    /\ env = [GITHUB_ACTIONS |-> FALSE, GITHUB_EVENT_NAME |-> "push"]
    /\ tree = <<DocsApiSpec, DocsX>>
    /\ git = [ok |-> FALSE, files |-> <<>>]
    /\ config = Null
    /\ mode = [mode |-> "none", detection |-> "none"]
    /\ allChangedFiles = <<>>
    /\ idx = 0
    /\ mapping = Null
    /\ successCount = 0
    /\ errorCount = 0
    /\ skippedCount = 0
    /\ accessToken \in {0, 1}
    /\ issued = accessToken
    /\ refreshToken = 0
    /\ remote = {}
    /\ call = NoCall
    /\ fileExists = FALSE
    /\ log = <<>>
    /\ step2 = NoStep2
    /\ inflight = [c \in Clients |-> ClientIdle]

NextConcurrent ==
    \E c \in Clients :
        \/ ClientCall(c)
        \/ ClientEnterWithToken(c)
        \/ ClientAcquireBegin(c)
        \/ ClientAcquireEnd(c)
        \/ ClientAcquireFails(c)
        \/ ClientRead(c)
        \/ ClientProbe(c)
        \/ ClientPutSucceeds(c)
        \/ ClientPutFails(c)
        \/ ClientPutUnauthorized(c)
        \/ ClientRefreshEnd(c)
        \/ ClientRefreshFails(c)

SpecConcurrent == InitConcurrent /\ [][NextConcurrent]_vars

\* --- one uploadFile call executed twice, the probe answered differently ----
\* the call uploadFile('docs/x.md', 'F1', 'x.md') at its entry, on a session
\* with or without a token and a drive with or without the item
CallAtEntry(token, drive) ==
    [pc |-> "uf_entry", filePath |-> DocsX, folderId |-> "F1", fileName |-> basename(DocsX),
     accessToken |-> token, refreshToken |-> 0, issued |-> token, remote |-> drive,
     fileExists |-> FALSE, probed |-> "none", puts |-> 0, unauthorized |-> 0,
     reauths |-> 0, authCalls |-> 0]

InitProbe ==
    /\ pc = "required"
    /\ yaml = [mappings |-> Obj(DocsTable), include_patterns |-> Null,
               exclude_patterns |-> Null]
    /\ env = [GITHUB_ACTIONS |-> FALSE, GITHUB_EVENT_NAME |-> "push"]
    /\ tree = <<DocsX>>
    /\ git = [ok |-> FALSE, files |-> <<>>]
    /\ config = Null
    /\ mode = [mode |-> "none", detection |-> "none"]
    /\ allChangedFiles = <<>>
    /\ idx = 0
    /\ mapping = Null
    /\ successCount = 0
    /\ errorCount = 0
    /\ skippedCount = 0
    /\ accessToken = 0
    /\ issued = 0
    /\ refreshToken = 0
    /\ remote = {}
    /\ call = NoCall
    /\ fileExists = FALSE
    /\ log = <<>>
    /\ step2 = NoStep2
    /\ \E token \in {0, 1},
          drive \in {{}, {[folderId |-> "F1", fileName |-> basename(DocsX),
                          content |-> OldContent]}} :
         inflight = [r \in {1, 2} |-> CallAtEntry(token, drive)]

NextProbe == StepBoth

SpecProbe == InitProbe /\ [][NextProbe]_vars

\* --- two files delivered to one destination under one name ----------------
InitDelivery ==
    /\ pc = "start"
    /\ config = Null
    /\ mode = [mode |-> "none", detection |-> "none"]
    /\ allChangedFiles = <<>>
    /\ idx = 0
    /\ mapping = Null
    /\ successCount = 0
    /\ errorCount = 0
    /\ skippedCount = 0
    /\ accessToken = 0
    /\ refreshToken = 0
    /\ issued = 0
    /\ remote \in {{}, {[folderId |-> "F1", fileName |-> basename(DocsX),
                         content |-> OldContent]}}
    /\ call = NoCall
    /\ fileExists = FALSE
    /\ log = <<>>
    /\ step2 = NoStep2
    /\ inflight = <<>>
    /\ yaml = [mappings |-> Obj(DocsTable), include_patterns |-> Null,
               exclude_patterns |-> Null]
    /\ env \in {[GITHUB_ACTIONS |-> FALSE, GITHUB_EVENT_NAME |-> "push"],
                [GITHUB_ACTIONS |-> TRUE, GITHUB_EVENT_NAME |-> "push"]}
    /\ tree = <<DocsX, DocsSubX, GuidesIntro>>
    /\ git \in GitResults({DocsX, DocsSubX, GuidesIntro})

SpecDelivery == InitDelivery /\ [][Next]_vars

\* --- the resolver alone, over a wider range of configurations -------------
IncludeChoices ==
    {Null, Str(DefaultInclude), Arr(<<>>), Arr(<<DefaultInclude>>), Arr(<<AnyFile>>),
     Arr(<<DefaultInclude, DocsTree>>), Arr(<<DocsTree, AnyFile>>),
     Arr(<<NumberPattern, DefaultInclude>>), Arr(<<DocsTree, NumberPattern>>)}

ExcludeChoices ==
    {Null, Str(ExcludeDraft), Arr(<<ExcludeDraft>>), Arr(<<DocsTree, ExcludeDraft>>),
     Arr(<<NumberPattern, ExcludeDraft>>)}

Trees ==
    {<<>>, <<DocsApiSpec, GuidesIntro>>, <<DocsText, DocsX, NotesDraftX>>,
     <<DocsApiSpec, DocsText, DocsX, GuidesIntro, NotesDraftX>>}

InitResolver ==
    /\ RunStart
    /\ yaml \in {[mappings |-> Obj(DocsTable), include_patterns |-> i,
                  exclude_patterns |-> x] :
                    i \in IncludeChoices, x \in ExcludeChoices}
    /\ env \in Envs
    /\ tree \in Trees
    /\ git \in GitResults({DocsApiSpec, DocsX, DocsText, NotesDraftX, DocsGone})

NextResolver ==
    \/ LoadConfig
    \/ ResolveChangeSet

SpecResolver == InitResolver /\ [][NextResolver]_vars

\* --- the routing function alone, over every short path ---------------------
PathChars == {"a", "b", "/", "\\"}

RoutingKeys == {<<"a">>, <<"b">>, <<"a", "/", "b">>, <<"a", "/", "b", "/", "a">>}

FolderIdOf(key) ==
    CASE key = <<"a">> -> "F1"
      [] key = <<"b">> -> "F2"
      [] key = <<"a", "/", "b">> -> "F3"
      [] OTHER -> "F4"

\* every non-empty table over RoutingKeys, in every key order
RoutingTables ==
    {[i \in 1..Len(ks) |-> [path |-> ks[i], id |-> FolderIdOf(ks[i])]] :
        ks \in {k \in SeqsUpTo(RoutingKeys, Cardinality(RoutingKeys)) :
                   /\ Len(k) > 0
                   /\ \A i, j \in 1..Len(k) : i # j => k[i] # k[j]}}

InitMapping ==
    /\ \E table \in RoutingTables :
         /\ yaml = [mappings |-> Obj(table), include_patterns |-> Null, exclude_patterns |-> Null]
         /\ config = loadFolderMapping(yaml)
    /\ env = [GITHUB_ACTIONS |-> FALSE, GITHUB_EVENT_NAME |-> "push"]
    /\ \E p \in SeqsUpTo(PathChars, MaxPathLen) :
         /\ tree = <<p>>
         /\ allChangedFiles = <<p>>
    /\ git = [ok |-> FALSE, files |-> <<>>]
    /\ pc = "loop"
    /\ mode = [mode |-> "FullScan", detection |-> "none"]
    /\ idx = 1
    /\ mapping = Null
    /\ successCount = 0
    /\ errorCount = 0
    /\ skippedCount = 0
    /\ accessToken = 0
    /\ refreshToken = 0
    /\ issued = 0
    /\ remote = {}
    /\ call = NoCall
    /\ fileExists = FALSE
    /\ log = <<>>
    /\ step2 = NoStep2
    /\ inflight = <<>>

NextMapping == ResolveDestination

SpecMapping == InitMapping /\ [][NextMapping]_vars

(***************************************************************************)
(* Routing claims (checked under SpecMapping).                             *)
(***************************************************************************)
\* key is a path-prefix of path, stated on the characters: the path is the
\* key, or continues it with a "/"
IsPathPrefix(key, path) ==
    \/ path = key
    \/ /\ Len(path) > Len(key)
       /\ SubSeq(path, 1, Len(key) + 1) = Append(key, "/")

\* number of slash-separated segments of a string
SegmentCount(str) == 1 + Cardinality({i \in 1..Len(str) : str[i] = "/"})

\* positions of the table whose key is a path-prefix of the normalised path
MatchingEntries(path, table) ==
    {i \in 1..Len(table) : IsPathPrefix(table[i].path, normalizedPathOf(path))}

\* C1: getFolderMapping returns the entry whose key is a segment-wise
\* path-prefix of the path with the greatest number of segments among the
\* matching keys, and null when no key is a path-prefix of the path.
C1_LongestPrefixSelected ==
    pc = "mapped" =>
        LET table == config.mappings
            matching == MatchingEntries(filePath, table)
        IN  IF matching = {}
            THEN isNull(mapping)
            ELSE /\ ~isNull(mapping)
                 /\ \E i \in matching :
                      /\ \A j \in matching :
                           SegmentCount(table[j].path) <= SegmentCount(table[i].path)
                      /\ mapping.folderId = table[i].id
                      /\ mapping.folderName = table[i].path

\* a path that two keys of different length prefix, resolved to the longer key
C1_Witness ==
    /\ pc = "mapped"
    /\ Cardinality(MatchingEntries(filePath, config.mappings)) >= 2
    /\ ~isNull(mapping)
    /\ mapping.folderName = <<"a", "/", "b">>
    /\ mapping.folderId = "F3"

\* the tables that hold the same entries as the configured one, in any order
Reorderings(table) == {t \in RoutingTables : Range(t) = Range(table)}

\* C17: the destination getFolderMapping selects for a path is the same for
\* every iteration order of the same set of unique keys.
C17_OrderIndependent ==
    pc = "mapped" =>
        \A t \in Reorderings(config.mappings) :
            getFolderMapping(filePath, [mappings |-> t]) = mapping

\* the longer of two matching keys is listed first, the shorter after it, and
\* the longer one is selected
C17_Witness ==
    /\ pc = "mapped"
    /\ Len(config.mappings) >= 2
    /\ config.mappings[1].path = <<"a", "/", "b">>
    /\ config.mappings[2].path = <<"a">>
    /\ MatchingEntries(filePath, config.mappings) = {1, 2}
    /\ Cardinality(Reorderings(config.mappings)) >= 2
    /\ mapping.folderId = "F3"

\* the key has more segments than the path
MoreSegments(key, path) == SegmentCount(key) > SegmentCount(path)

\* the key's characters begin the path, but the key ends inside a segment
CharPrefixOnly(key, path) ==
    /\ Len(path) > Len(key)
    /\ SubSeq(path, 1, Len(key)) = key
    /\ path[Len(key) + 1] # "/"

\* the key's segments occur in the path, but not from its first segment on
NonLeadingOnly(key, path) ==
    /\ ~IsPathPrefix(key, path)
    /\ \E k \in 1..Len(split(path, "/")) :
         /\ k + Len(split(key, "/")) <= Len(split(path, "/"))
         /\ \A i \in 1..Len(split(key, "/")) :
              split(path, "/")[k + i] = split(key, "/")[i]

\* what getFolderMapping returns for the path when the table holds one entry
RoutedAlone(entry) == getFolderMapping(filePath, [mappings |-> <<entry>>])

\* C25: a key is a match for a path only if it is a path-prefix of it segment
\* by segment: a key with more segments than the path, a key that equals a
\* non-leading component only, and a key that is a character prefix but ends
\* inside a segment are never a match, alone or among other keys.
C25_OnlySegmentPrefixMatches ==
    pc = "mapped" =>
        LET path == normalizedPathOf(filePath)
            table == config.mappings
        IN  /\ \A i \in 1..Len(table) :
                 /\ ~isNull(RoutedAlone(table[i])) => IsPathPrefix(table[i].path, path)
                 /\ (\/ MoreSegments(table[i].path, path)
                     \/ CharPrefixOnly(table[i].path, path)
                     \/ NonLeadingOnly(table[i].path, path))
                    => /\ isNull(RoutedAlone(table[i]))
                       /\ ~isNull(mapping) => mapping.folderName # table[i].path
            /\ ~isNull(mapping) => IsPathPrefix(mapping.folderName, path)

\* the path ab/b under the keys a (a character prefix), b (its second
\* component), a/b and a/b/a (more segments): no destination
C25_Witness ==
    /\ pc = "mapped"
    /\ filePath = <<"a", "b", "/", "b">>
    /\ Len(config.mappings) = 4
    /\ CharPrefixOnly(<<"a">>, filePath)
    /\ NonLeadingOnly(<<"b">>, filePath)
    /\ MoreSegments(<<"a", "/", "b", "/", "a">>, filePath)
    /\ isNull(mapping)

(***************************************************************************)
(* Delivery and orchestration claims (checked under Spec).                 *)
(***************************************************************************)
\* the uploadFile calls made so far: the finished ones and the one in flight
CallsMade ==
    {log[i].call : i \in {j \in 1..Len(log) : log[j].call.active}}
    \cup (IF call.active THEN {call} ELSE {})

CountOf(outcome) == Cardinality({i \in 1..Len(log) : log[i].outcome = outcome})

\* C2: one uploadFile call re-authenticates at most once and sends at most two
\* PUT requests; when the retry is answered 401 as well the call fails, the
\* file is counted as failed and there is no third attempt.
C2_AtMostOneRetry ==
    /\ \A c \in CallsMade : c.reauths <= 1 /\ c.puts <= 2
    /\ \A i \in 1..Len(log) :
         (log[i].call.active /\ log[i].call.unauthorized >= 2) =>
             log[i].outcome = "failed"

\* C3 as stated: a call whose first PUT is answered 401 and whose retry
\* succeeds is counted as uploaded after exactly one authenticate call.
C3_OneAuthenticateCall ==
    \A i \in 1..Len(log) :
        (log[i].call.active /\ log[i].call.unauthorized = 1 /\ log[i].call.lastPut = "ok") =>
            /\ log[i].outcome = "uploaded"
            /\ log[i].call.authCalls = 1

\* C3, amended: such a call is counted as uploaded after exactly one
\* re-authentication and two PUT requests; authenticate ran once if the
\* session held a token when the call began, and twice (the first acquisition
\* and the re-authentication) if it held none.
C3_OneReauthentication ==
    /\ successCount = CountOf("uploaded")
    /\ \A i \in 1..Len(log) :
         (log[i].call.active /\ log[i].call.unauthorized = 1 /\ log[i].call.lastPut = "ok") =>
             /\ log[i].outcome = "uploaded"
             /\ log[i].call.reauths = 1
             /\ log[i].call.puts = 2
             /\ log[i].call.authCalls = (IF log[i].call.hadToken THEN 1 ELSE 2)

\* the first file of a run is answered 401 once and then uploaded
C3_Witness ==
    /\ Len(log) >= 1
    /\ log[1].call.active
    /\ ~log[1].call.hadToken
    /\ log[1].call.unauthorized = 1
    /\ log[1].call.lastPut = "ok"
    /\ log[1].outcome = "uploaded"
    /\ successCount = 1

\* C4: at every point of the upload loop uploaded + skipped + failed is the
\* number of files processed so far, each processed file is in exactly one
\* counter, and when the loop has finished the sum is the length of the
\* filtered list.
C4_CountersPartitionFiles ==
    /\ successCount + skippedCount + errorCount = Len(log)
    /\ successCount = CountOf("uploaded")
    /\ skippedCount = CountOf("skipped")
    /\ errorCount = CountOf("failed")
    /\ \A i \in 1..Len(log) : log[i].file = allChangedFiles[i]
    /\ pc \in {"loop", "mapped", "uf_entry", "uf_read", "uf_probe", "uf_put", "uf_reauth"}
           => Len(log) = idx - 1
    /\ pc = "step1_done" => Len(log) = Len(allChangedFiles)

\* a finished loop over two files with one upload and one failure
C4_Witness ==
    /\ pc = "step1_done"
    /\ Len(allChangedFiles) = 2
    /\ successCount = 1
    /\ errorCount = 1

\* the destination the routing gives the i-th file of the list
DestinationOf(i) == getFolderMapping(allChangedFiles[i], config)

\* C5: a failed delivery never aborts the batch: it adds one to failed, and
\* every later file of the list is still resolved and, if mapped, delivered.
C5_FailureIsolated ==
    /\ pc # "fatal" \/ Len(log) = 0
    /\ errorCount = CountOf("failed")
    /\ pc = "step1_done" => Len(log) = Len(allChangedFiles)
    /\ \A i \in 1..Len(log) :
         /\ log[i].mapped = ~isNull(DestinationOf(i))
         /\ log[i].mapped =>
              /\ log[i].call.active
              /\ log[i].call.folderId = DestinationOf(i).folderId

\* a failed first file followed by an uploaded second file
C5_Witness ==
    /\ Len(log) = 2
    /\ log[1].outcome = "failed"
    /\ log[2].outcome = "uploaded"
    /\ log[2].call.puts >= 1

\* C6: a file whose path no mapping key prefixes is counted as skipped, never
\* as uploaded or failed, and uploadFile is never called for it.
C6_UnmappedSkipped ==
    /\ \A i \in 1..Len(log) :
         MatchingEntries(log[i].file, config.mappings) = {} =>
             /\ log[i].outcome = "skipped"
             /\ ~log[i].call.active
    /\ skippedCount =
         Cardinality({i \in 1..Len(log) :
                         MatchingEntries(log[i].file, config.mappings) = {}})
    /\ call.active => MatchingEntries(filePath, config.mappings) # {}

\* guides/intro.md under the table {docs, docs/api}: skipped only
C6_Witness ==
    /\ Len(log) = 1
    /\ log[1].file = GuidesIntro
    /\ log[1].outcome = "skipped"
    /\ skippedCount = 1
    /\ successCount = 0
    /\ errorCount = 0

\* C15: a delivery that fails for a reason other than a 401 (the PUT is
\* rejected or gets no answer, the local file cannot be read) ends the
\* uploadFile call at once: no re-authentication and no further PUT follow
\* it, the file is counted as failed, and the loop makes one uploadFile call
\* per list position, so the file is not attempted again.
C15_NoRetryWithoutUnauthorized ==
    /\ \A c \in CallsMade :
         /\ c.reauths <= c.unauthorized
         /\ c.puts <= c.unauthorized + 1
         /\ c.invocations <= c.reauths + 1
    /\ \A i \in 1..Len(log) :
         (log[i].call.active /\ log[i].call.failure \in {"read", "put"}) =>
             /\ log[i].outcome = "failed"
             /\ log[i].call.puts =
                  log[i].call.unauthorized + (IF log[i].call.failure = "put" THEN 1 ELSE 0)
             /\ log[i].call.reauths = log[i].call.unauthorized
             /\ log[i].call.invocations = log[i].call.reauths + 1
    /\ Len(log) <= Len(allChangedFiles)
    /\ \A i \in 1..Len(log) : log[i].file = allChangedFiles[i]
    /\ call.active => (idx = Len(log) + 1 /\ call.filePath = allChangedFiles[idx])

\* the first file's only PUT is rejected, the second file's local read fails:
\* two failures, one token request in the whole run
C15_Witness ==
    /\ Len(log) = 2
    /\ log[1].outcome = "failed" /\ log[1].call.failure = "put"
    /\ log[1].call.puts = 1 /\ log[1].call.reauths = 0
    /\ log[2].outcome = "failed" /\ log[2].call.failure = "read"
    /\ log[2].call.puts = 0
    /\ errorCount = 2
    /\ issued = 1

\* no PUT of the session has been answered 401 so far
NoUnauthorized ==
    /\ \A i \in 1..Len(log) : log[i].call.active => log[i].call.unauthorized = 0
    /\ call.active => call.unauthorized = 0

\* the uploadFile call got past its entry: the session held or acquired a token
Entered(c) == c.active /\ c.failure # "authenticate"

\* C16: no file is read, probed or sent before the session holds a token; and
\* as long as no PUT is answered 401, one authenticate call succeeds in the
\* whole session: the call that acquires the token makes it, every later call
\* finds the token and makes none.
C16_AcquiredOnceThenReused ==
    /\ pc \in {"uf_read", "uf_probe", "uf_put"} => accessToken # 0
    /\ NoUnauthorized =>
         /\ issued <= 1
         /\ accessToken = issued
         /\ \A i \in 1..Len(log) :
              log[i].call.active =>
                  log[i].call.authCalls = (IF log[i].call.hadToken THEN 0 ELSE 1)
         /\ \A i, j \in 1..Len(log) :
              (i < j /\ Entered(log[i].call) /\ log[j].call.active) =>
                  (log[j].call.hadToken /\ log[j].call.authCalls = 0)
         /\ call.active =>
              /\ call.authCalls <= (IF call.hadToken THEN 0 ELSE 1)
              /\ (\E i \in 1..Len(log) : Entered(log[i].call)) =>
                   (call.hadToken /\ call.authCalls = 0)
         /\ (\E i \in 1..Len(log) : Entered(log[i].call)) => issued = 1

\* two files uploaded with no 401: the first call acquires the token, the
\* second reuses it
C16_Witness ==
    /\ NoUnauthorized
    /\ Len(log) = 2
    /\ log[1].outcome = "uploaded" /\ ~log[1].call.hadToken /\ log[1].call.authCalls = 1
    /\ log[2].outcome = "uploaded" /\ log[2].call.hadToken /\ log[2].call.authCalls = 0
    /\ issued = 1

\* the document has no mappings section, or an empty one
MappingsMissingOrEmpty ==
    \/ ~truthy(yaml.mappings)
    \/ Len(yaml.mappings.entries) = 0

\* nothing of the run after the configuration load has happened
NothingProcessed ==
    /\ isNull(config)
    /\ mode.mode = "none"
    /\ allChangedFiles = <<>>
    /\ isNull(mapping)
    /\ log = <<>>
    /\ ~call.active
    /\ accessToken = 0 /\ issued = 0
    /\ remote = {}
    /\ successCount = 0 /\ errorCount = 0 /\ skippedCount = 0

\* C12: a configuration whose mappings section is missing or empty is fatal:
\* the only step such a run takes is the one to the fatal exit, and it takes
\* it before the change set is resolved and before any file is resolved,
\* authenticated for or delivered.
C12_InvalidConfigFatal ==
    /\ [](MappingsMissingOrEmpty => (pc \in {"start", "fatal"} /\ NothingProcessed))
    /\ [][(MappingsMissingOrEmpty /\ pc = "start") => pc' = "fatal"]_vars

\* a document without mappings section, at the fatal exit
C12_Witness ==
    /\ ~truthy(yaml.mappings)
    /\ pc = "fatal"
    /\ NothingProcessed

\* positions of the log of files that had a destination
MappedPositions == {i \in 1..Len(log) : log[i].call.active}

\* the mapped file the loop handled after position i, if there is one
NextMapped(i) ==
    IF \E j \in MappedPositions : j > i
    THEN CHOOSE j \in MappedPositions : j > i /\ \A k \in MappedPositions : k > i => j <= k
    ELSE 0

\* the step ends an uploadFile call whose authenticate() threw
AuthenticateFailed ==
    /\ Len(log') = Len(log) + 1
    /\ log'[Len(log')].call.active
    /\ log'[Len(log')].call.failure = "authenticate"

\* C28: a failed authenticate() leaves accessToken and refreshToken as they
\* were and obtains no token; the delivery that called it is counted as
\* failed and the loop goes on, the run is never ended by it; and when the
\* session holds no token after it, the next mapped file finds none and
\* calls authenticate() again.
C28_FailedAuthenticateIsOneFailure ==
    /\ [][AuthenticateFailed =>
             /\ accessToken' = accessToken
             /\ refreshToken' = refreshToken
             /\ issued' = issued
             /\ remote' = remote
             /\ errorCount' = errorCount + 1
             /\ successCount' = successCount /\ skippedCount' = skippedCount
             /\ log'[Len(log')].outcome = "failed"
             /\ pc' = "loop"]_vars
    /\ [](/\ pc = "fatal" => (isNull(config) /\ Len(log) = 0 /\ ~call.active)
          /\ \A i \in MappedPositions :
               log[i].call.failure = "authenticate" =>
                   /\ log[i].outcome = "failed"
                   /\ log[i].call.reauths = 0 => (~log[i].call.hadToken /\ log[i].call.puts = 0)
                   /\ LET holds == log[i].call.reauths > 0
                          j == NextMapped(i)
                          next == IF j > 0 THEN log[j].call ELSE call
                      IN  (j > 0 \/ call.active) =>
                              /\ next.hadToken = holds
                              /\ (~holds /\ (j > 0 \/ pc # "uf_entry")) => next.authCalls >= 1)

\* the first file's authentication fails, the second file authenticates
\* again and is uploaded
C28_Witness ==
    /\ Len(log) = 2
    /\ log[1].outcome = "failed" /\ log[1].call.failure = "authenticate"
    /\ ~log[1].call.hadToken /\ log[1].call.authCalls = 1
    /\ log[2].outcome = "uploaded" /\ ~log[2].call.hadToken /\ log[2].call.authCalls = 1
    /\ accessToken = 1 /\ issued = 1
    /\ errorCount = 1 /\ successCount = 1

\* main is inside uploader.uploadFile(...)
InUploadFile == pc \in {"uf_entry", "uf_read", "uf_probe", "uf_put", "uf_reauth"}

\* the step enters uploadFile for a file of the list
StartsDelivery ==
    /\ call'.active
    /\ call' # call
    /\ call'.invocations = 1 /\ call'.puts = 0 /\ call'.authCalls = 0

\* C29: the deliveries of a run are sequential and in list order: one
\* uploadFile call at most is in flight, main waits inside it, and a
\* delivery starts only when no call is in flight and every earlier file of
\* the list has been skipped or its delivery, retries included, has resolved
\* or rejected.
C29_DeliveriesSequentialInListOrder ==
    /\ [](/\ call.active <=> InUploadFile
          /\ call.active => (idx = Len(log) + 1 /\ call.filePath = allChangedFiles[idx])
          /\ \A i \in 1..Len(log) :
               /\ log[i].file = allChangedFiles[i]
               /\ log[i].outcome \in {"uploaded", "failed", "skipped"}
               /\ log[i].call.active =>
                    log[i].outcome = (IF log[i].call.lastPut = "ok"
                                      THEN "uploaded" ELSE "failed"))
    /\ [][StartsDelivery =>
             /\ ~call.active
             /\ Len(log) = idx - 1
             /\ call'.filePath = allChangedFiles[idx]
             /\ idx' = idx /\ log' = log]_vars

\* the first file was uploaded at its second attempt, after a
\* re-authentication; the delivery of the second file has just started
C29_Witness ==
    /\ Len(log) = 1
    /\ log[1].outcome = "uploaded" /\ log[1].call.reauths = 1 /\ log[1].call.puts = 2
    /\ call.active /\ pc = "uf_entry" /\ call.invocations = 1
    /\ call.filePath = allChangedFiles[2]

\* the token requests of the run so far, in the order they were sent
RECURSIVE AuthsOfLog(_)
AuthsOfLog(n) ==
    IF n = 0 THEN <<>>
    ELSE AuthsOfLog(n - 1) \o (IF log[n].call.active THEN log[n].call.auths ELSE <<>>)

AuthHistory == AuthsOfLog(Len(log)) \o (IF call.active THEN call.auths ELSE <<>>)

\* the tokens a session holds after the first n requests of history h, when
\* it began with no access token and the refresh token of the constructor
\* (0), each success replacing the access token and, if it carried a refresh
\* token, the refresh token; usedLatest: every request sent the refresh token
\* stored at that moment
RECURSIVE TokensAfter(_, _)
TokensAfter(h, n) ==
    IF n = 0 THEN [access |-> 0, refresh |-> 0, usedLatest |-> TRUE]
    ELSE LET before == TokensAfter(h, n - 1)
         IN  [access |-> IF h[n].ok THEN h[n].access_token ELSE before.access,
              refresh |-> IF h[n].ok /\ h[n].refresh_token # 0
                          THEN h[n].refresh_token ELSE before.refresh,
              usedLatest |-> before.usedLatest /\ h[n].sent = before.refresh]

\* C31: a successful authenticate() replaces the access token with the
\* issued one and the refresh token only if the response carries one; every
\* token request sends the refresh token stored last; nothing else changes
\* either token: at every point of the run the session holds exactly the
\* tokens its token requests so far account for.
C31_TokensReplacedOnlyByAuthenticate ==
    LET expected == TokensAfter(AuthHistory, Len(AuthHistory))
    IN  /\ accessToken = expected.access
        /\ refreshToken = expected.refresh
        /\ expected.usedLatest
        /\ Len(AuthHistory) >= issued

\* the first answer carried refresh token 1; the re-authentication sent it and
\* was answered with access token 2 and no refresh token: the session holds
\* access token 2 and still refresh token 1, and the retry has been sent
C31_Witness ==
    /\ call.active
    /\ pc = "uf_put"
    /\ call.auths = <<[sent |-> 0, ok |-> TRUE, access_token |-> 1, refresh_token |-> 1],
                      [sent |-> 1, ok |-> TRUE, access_token |-> 2, refresh_token |-> 0]>>
    /\ accessToken = 2
    /\ refreshToken = 1

(***************************************************************************)
(* Delivery claims (checked under SpecDelivery).                           *)
(***************************************************************************)
\* positions of the log at which a file was delivered to the pair
DeliveriesTo(folderId, fileName) ==
    {i \in 1..Len(log) : /\ log[i].outcome = "uploaded"
                         /\ log[i].call.folderId = folderId
                         /\ log[i].call.fileName = fileName}

\* the position of the latest of them
LastDeliveryTo(folderId, fileName) ==
    CHOOSE i \in DeliveriesTo(folderId, fileName) :
        \A j \in DeliveriesTo(folderId, fileName) : j <= i

\* C11: however often a (destinationId, fileName) pair is delivered to, and
\* whether or not the drive held an item for it before, the drive holds one
\* item for the pair and its content is that of the latest delivery; an item
\* no delivery addressed keeps its content; delivering one file twice leaves
\* the drive as a single delivery does.
C11_DeliveryReplaces ==
    /\ \A e1, e2 \in remote :
         (e1.folderId = e2.folderId /\ e1.fileName = e2.fileName) => e1 = e2
    /\ \A e \in remote :
         IF DeliveriesTo(e.folderId, e.fileName) = {}
         THEN e.content = OldContent
         ELSE e.content = log[LastDeliveryTo(e.folderId, e.fileName)].file
    /\ \A i \in 1..Len(log) :
         log[i].outcome = "uploaded" =>
             remoteHas(log[i].call.folderId, log[i].call.fileName)
    /\ (Len(log) = 2 /\ log[1].outcome = "uploaded" /\ log[2].outcome = "uploaded"
           /\ log[1].file = log[2].file)
          => remote = {[folderId |-> log[1].call.folderId,
                        fileName |-> log[1].call.fileName,
                        content |-> log[1].file]}

\* docs/x.md then docs/archive/x.md delivered to an item the drive already held
C11_Witness ==
    /\ Len(log) = 2
    /\ log[1].outcome = "uploaded" /\ log[1].file = DocsX /\ log[1].call.existed
    /\ log[2].outcome = "uploaded" /\ log[2].file = DocsSubX
    /\ remote = {[folderId |-> "F1", fileName |-> basename(DocsX), content |-> DocsSubX]}

\* the characters of a path after its last "/"
LastSegment(path) ==
    LET slashes == {i \in 1..Len(path) : path[i] = "/"}
        from == IF slashes = {} THEN 1
                ELSE 1 + CHOOSE i \in slashes : \A j \in slashes : j <= i
    IN  SubSeq(path, from, Len(path))

\* the items the drive holds for the pair
ItemsAt(folderId, fileName) ==
    {e \in remote : e.folderId = folderId /\ e.fileName = fileName}

\* C27: the remote name of a delivery is the last segment of the local path,
\* so two different files that are routed to one folder and share that
\* segment are written to one item of the drive: when both have been
\* delivered the drive holds one item for them, with the content of the one
\* delivered last, and both are counted as uploaded.
C27_SameBasenameSameItem ==
    /\ \A c \in CallsMade : c.fileName = LastSegment(c.filePath)
    /\ successCount = CountOf("uploaded")
    /\ \A i, j \in 1..Len(log) :
         (/\ i < j
          /\ log[i].file # log[j].file
          /\ log[i].outcome = "uploaded" /\ log[j].outcome = "uploaded"
          /\ log[i].call.folderId = log[j].call.folderId
          /\ LastSegment(log[i].file) = LastSegment(log[j].file))
         => LET folderId == log[j].call.folderId
                fileName == LastSegment(log[j].file)
                last == LastDeliveryTo(folderId, fileName)
            IN  /\ ItemsAt(folderId, fileName) =
                     {[folderId |-> folderId, fileName |-> fileName,
                       content |-> log[last].file]}
                /\ last >= j
                /\ successCount >= 2

\* docs/archive/x.md then docs/x.md, both routed to F1 as x.md on a drive
\* that held neither: one item, with the content of docs/x.md, two uploads
C27_Witness ==
    /\ pc = "step1_done"
    /\ Len(log) = 2
    /\ log[1].file = DocsSubX /\ log[1].outcome = "uploaded" /\ ~log[1].call.existed
    /\ log[2].file = DocsX /\ log[2].outcome = "uploaded" /\ log[2].call.existed
    /\ log[1].call.folderId = "F1" /\ log[2].call.folderId = "F1"
    /\ remote = {[folderId |-> "F1", fileName |-> <<"x", ".", "m", "d">>, content |-> DocsX]}
    /\ successCount = 2

(***************************************************************************)
(* Resolver claims (checked under SpecResolver).                           *)
(***************************************************************************)
\* getChangedFiles has returned
Resolved == mode.mode # "none"

\* the paths the filtering started from: the working tree on a full scan, the
\* list git named on an incremental run
Candidates == IF mode.mode = "FullScan" THEN tree ELSE git.files

\* the path matches the pattern; a pattern that cannot be tested matches nothing
Matches(path, pattern) == ~throwsOnPattern(pattern) /\ minimatch(path, pattern)

\* at least one include pattern and no exclude pattern matches the path
InScope(path) ==
    /\ \E i \in 1..Len(includePatternsOf(config)) :
         Matches(path, includePatternsOf(config)[i])
    /\ ~\E x \in 1..Len(excludePatternsOf(config)) :
         Matches(path, excludePatternsOf(config)[x])

\* C7: the filtered list holds only candidate paths, and a candidate path is in
\* it if and only if it matches at least one include pattern and no exclude
\* pattern, on a full scan and on an incremental run.
C7_FilterIsIncludeMinusExclude ==
    Resolved =>
        /\ \A p \in Range(allChangedFiles) : p \in Range(Candidates)
        /\ \A p \in Range(Candidates) : p \in Range(allChangedFiles) <=> InScope(p)

\* include **/*.md, exclude **/draft/**: of the changed paths docs/x.md and
\* notes/draft/x.md only the first is returned
C7_Witness ==
    /\ Resolved
    /\ mode.mode = "Incremental"
    /\ includePatternsOf(config) = <<DefaultInclude>>
    /\ excludePatternsOf(config) = <<ExcludeDraft>>
    /\ NotesDraftX \in Range(git.files)
    /\ allChangedFiles = <<DocsX>>

NoDuplicates(list) == \A i, j \in 1..Len(list) : list[i] = list[j] => i = j

\* position of the first occurrence of x in list
FirstIndex(list, x) == CHOOSE i \in 1..Len(list) : list[i] = x /\ \A j \in 1..(i - 1) : list[j] # x

\* out lists each of its paths once, in the order of their first occurrence in seen
InFirstSeenOrder(out, seen) ==
    /\ NoDuplicates(out)
    /\ \A i \in 1..Len(out) : out[i] \in Range(seen)
    /\ \A i, j \in 1..Len(out) :
         i < j => FirstIndex(seen, out[i]) < FirstIndex(seen, out[j])

\* every occurrence among the candidates: the concatenated glob results on a
\* full scan, the list git named on an incremental run
Occurrences ==
    IF mode.mode = "FullScan" THEN globAll(includePatternsOf(config), tree) ELSE git.files

DetectionFailed ==
    /\ env.GITHUB_ACTIONS
    /\ env.GITHUB_EVENT_NAME \in {"push", "pull_request"}
    /\ ~git.ok

\* what the resolver returns for the same tree and configuration on a manual
\* run, which is a full scan
FullScanList ==
    getChangedFiles(config, [GITHUB_ACTIONS |-> TRUE,
                             GITHUB_EVENT_NAME |-> "workflow_dispatch"], git, tree).files

\* C9: when incremental change detection raises an error the resolver returns
\* the list a full scan returns for the same tree and configuration, and the
\* run goes on.
C9_FallbackEqualsFullScan ==
    (Resolved /\ DetectionFailed) =>
        /\ allChangedFiles = FullScanList
        /\ mode.mode = "FullScan"
        /\ pc \in {"loop", "step1_done"}

\* a push run whose git command failed and that goes on with two files
C9_Witness ==
    /\ Resolved
    /\ DetectionFailed
    /\ Len(allChangedFiles) >= 2
    /\ pc = "loop"

\* the branch of the resolver the run context and git select
SelectedMode ==
    IF env.GITHUB_ACTIONS /\ env.GITHUB_EVENT_NAME \in {"push", "pull_request"} /\ git.ok
    THEN "Incremental" ELSE "FullScan"

\* C14: a pattern whose test raises an error counts as not matching and the
\* pass goes on: the resolver stays in the mode the run selected, and on the
\* incremental path it returns the changed paths that match an include
\* pattern and no exclude pattern, the failing pattern matching nothing.
C14_PatternErrorNeverAborts ==
    Resolved =>
        /\ mode.mode = SelectedMode
        /\ SelectedMode = "Incremental" => allChangedFiles = SelectSeq(git.files, InScope)

\* the pattern "**/*.md", character by character
MarkdownAnywhere == <<"*", "*", "/", "*", ".", "m", "d">>

\* C18: a document without include_patterns gives the include set
\* ["**/*.md"], a document without exclude_patterns gives the empty exclude
\* set, and the full-scan and the incremental filtering of the run use them:
\* with both absent the result is the candidates that match "**/*.md".
C18_PatternDefaults ==
    ~isNull(config) =>
        /\ isNull(yaml.include_patterns) =>
             /\ includePatternsOf(config) = <<MarkdownAnywhere>>
             /\ Resolved => \A p \in Range(allChangedFiles) : minimatch(p, MarkdownAnywhere)
        /\ isNull(yaml.exclude_patterns) =>
             /\ excludePatternsOf(config) = <<>>
             /\ Resolved =>
                  \A p \in Range(Candidates) :
                      (\E i \in 1..Len(includePatternsOf(config)) :
                          Matches(p, includePatternsOf(config)[i]))
                      => p \in Range(allChangedFiles)
        /\ (isNull(yaml.include_patterns) /\ isNull(yaml.exclude_patterns) /\ Resolved) =>
             allChangedFiles =
                 SelectSeq(Candidates, LAMBDA p : minimatch(p, MarkdownAnywhere))

\* a document with neither key, on an incremental run: of docs/x.md and
\* docs/r.tx the markdown file is kept
C18_Witness ==
    /\ Resolved
    /\ isNull(yaml.include_patterns) /\ isNull(yaml.exclude_patterns)
    /\ mode.mode = "Incremental"
    /\ git.files = <<DocsText, DocsX>>
    /\ allChangedFiles = <<DocsX>>

\* C10: on an incremental run a path deleted between the reference point and
\* HEAD is never in the list the resolver returns.
C10_DeletedNeverCandidate ==
    (Resolved /\ mode.mode = "Incremental") =>
        \A p \in Range(allChangedFiles) : p \in Range(tree)

\* C23: an incremental run applies the include/exclude predicate of the full
\* scan and nothing else: every returned path is a changed path, and a
\* changed path that exists in the tree is returned if and only if it matches
\* an include pattern and no exclude pattern, which is if and only if the
\* full scan of the same tree and configuration returns it.
C23_IncrementalFiltersLikeFullScan ==
    (Resolved /\ mode.mode = "Incremental") =>
        /\ \A p \in Range(allChangedFiles) : p \in Range(git.files)
        /\ \A p \in Range(git.files) \cap Range(tree) :
             /\ p \in Range(allChangedFiles) <=> InScope(p)
             /\ p \in Range(allChangedFiles) <=> p \in Range(FullScanList)

\* include **/*.md and docs/**, exclude **/draft/**: of the changed, existing
\* paths notes/draft/x.md and docs/r.tx the incremental run returns the
\* second, as the full scan does, and drops the first, as the full scan does
C23_Witness ==
    /\ Resolved
    /\ mode.mode = "Incremental"
    /\ excludePatternsOf(config) = <<ExcludeDraft>>
    /\ git.files = <<NotesDraftX, DocsText>>
    /\ {NotesDraftX, DocsText} \subseteq Range(tree)
    /\ allChangedFiles = <<DocsText>>
    /\ DocsText \in Range(FullScanList)
    /\ NotesDraftX \notin Range(FullScanList)

\* the run context asks for a change set: a push or a pull request under
\* GitHub Actions
ChangeSetContext ==
    env.GITHUB_ACTIONS /\ env.GITHUB_EVENT_NAME \in {"push", "pull_request"}

\* C24: the resolver is in Incremental mode only for a push or pull_request
\* event under GitHub Actions; for workflow_dispatch, an unknown event name or
\* a run outside GitHub Actions it does not ask git and returns the full
\* scan: the paths of the working tree that match an include pattern and no
\* exclude pattern, whatever git would have named.
C24_IncrementalOnlyForPushOrPullRequest ==
    Resolved =>
        /\ mode.mode = "Incremental" => ChangeSetContext
        /\ ~ChangeSetContext =>
             /\ mode = [mode |-> "FullScan", detection |-> "none"]
             /\ allChangedFiles = findAllFiles(config, tree)
             /\ Range(allChangedFiles) = {p \in Range(tree) : InScope(p)}

\* a manual trigger after a commit that changed docs/x.md only: both markdown
\* files of the tree are returned
C24_Witness ==
    /\ Resolved
    /\ env.GITHUB_ACTIONS /\ env.GITHUB_EVENT_NAME = "workflow_dispatch"
    /\ git.ok /\ git.files = <<DocsX>>
    /\ mode.mode = "FullScan"
    /\ allChangedFiles = <<DocsX, NotesDraftX>>

\* the mode the resolver starts in: it computes a change set for a push or a
\* pull request under GitHub Actions and scans the tree otherwise
StartedMode ==
    IF env.GITHUB_ACTIONS /\ env.GITHUB_EVENT_NAME \in {"push", "pull_request"}
    THEN "Incremental" ELSE "FullScan"

\* C22: within a run the resolver's mode changes at most once, from
\* Incremental to FullScan and only when change detection raised an error
\* (a failing git command, an unusable reference point); a resolver that has
\* started in or fallen back to a full scan returns the full-scan list, and
\* the mode a run has resolved to stays.
C22_ModeFallsBackOnlyOnDetectionError ==
    /\ [](Resolved =>
            /\ StartedMode = "FullScan" => mode.mode = "FullScan"
            /\ (StartedMode = "Incremental" /\ mode.mode = "FullScan") => DetectionFailed
            /\ mode.mode = "FullScan" => allChangedFiles = FullScanList)
    /\ [][Resolved => mode' = mode]_vars

(***************************************************************************)
(* Claims about the whole run (checked under SpecRun).                     *)
(***************************************************************************)
\* file deliveries counted as failed, in step 1 and in step 2
failedDeliveries == errorCount + step2.errorCount

\* C13: a run in which at least one file delivery was counted as failed ends
\* with a failure signal, and a run that loaded its configuration and counted
\* no failed delivery ends without one.
C13_FailureSignalIffFailed ==
    ended =>
        /\ failedDeliveries > 0 => failureSignal
        /\ (~isNull(config) /\ failedDeliveries = 0) => ~failureSignal

\* the uploadFile calls made for PDFs: the finished ones and the one in flight
PdfCalls ==
    {step2.log[i].call : i \in {j \in 1..Len(step2.log) : step2.log[j].call.active}}
    \cup (IF call.active /\ call.step = 2 THEN {call} ELSE {})

\* C19 as stated: a generated PDF is delivered only if it satisfies the
\* include/exclude predicate and resolves to a destination.
C19_PdfFilteredBeforeDelivery ==
    \A c \in PdfCalls :
        c.lastPut = "ok" =>
            /\ InScope(c.filePath)
            /\ ~isNull(getFolderMapping(c.filePath, config))

\* C19, amended: a generated PDF is not tested against the include and
\* exclude patterns, only its markdown source was; it goes through the same
\* routing and delivery as an ordinary file: it is the PDF of a markdown file
\* of the filtered list, it is skipped when no key prefixes it, and otherwise
\* uploadFile is called once for it with the routed folder and its basename.
C19_PdfRoutedAndDelivered ==
    /\ \A i \in 1..Len(step2.pdfFiles) :
         \E m \in Range(markdownFilesOf(allChangedFiles)) :
             /\ step2.pdfFiles[i] = pdfFileOf(m)
             /\ InScope(m)
    /\ Len(step2.log) <= Len(step2.pdfFiles)
    /\ step2.successCount + step2.skippedCount + step2.errorCount = Len(step2.log)
    /\ \A i \in 1..Len(step2.log) :
         LET entry == step2.log[i]
             routed == getFolderMapping(entry.file, config)
         IN  /\ entry.file = step2.pdfFiles[i]
             /\ entry.mapped = ~isNull(routed)
             /\ isNull(routed) => (entry.outcome = "skipped" /\ ~entry.call.active)
             /\ ~isNull(routed) =>
                  /\ entry.call.active
                  /\ entry.call.filePath = entry.file
                  /\ entry.call.folderId = routed.folderId
                  /\ entry.call.fileName = basename(entry.file)
                  /\ entry.outcome = (IF entry.call.lastPut = "ok"
                                      THEN "uploaded" ELSE "failed")
    /\ \A c \in PdfCalls : ~isNull(getFolderMapping(c.filePath, config))
    /\ pc = "done" => Len(step2.log) = Len(step2.pdfFiles)

\* docs/x.pdf, which "**/*.md" does not match, is uploaded to F1 and
\* guides/intro.pdf is skipped
C19_Witness ==
    /\ pc = "done"
    /\ Len(step2.log) = 2
    /\ step2.log[1].file = pdfFileOf(DocsX)
    /\ ~InScope(step2.log[1].file)
    /\ step2.log[1].outcome = "uploaded"
    /\ step2.log[1].call.folderId = "F1"
    /\ [folderId |-> "F1", fileName |-> basename(pdfFileOf(DocsX)),
         content |-> pdfFileOf(DocsX)] \in remote
    /\ step2.log[2].file = pdfFileOf(GuidesIntro)
    /\ step2.log[2].outcome = "skipped"

\* change detection ran and succeeded, and no path it named is in scope
NothingInScopeChanged ==
    /\ ChangeSetContext
    /\ git.ok
    /\ \A p \in Range(git.files) : ~InScope(p)

\* C30: when change detection succeeds and names no path, or no path that
\* matches an include pattern and no exclude pattern, the resolver returns
\* the empty list in Incremental mode, without a full scan, and the run
\* requests no token, attempts no delivery in either step and ends without a
\* failure signal.
C30_NothingChangedNothingDone ==
    (Resolved /\ NothingInScopeChanged) =>
        /\ mode.mode = "Incremental"
        /\ allChangedFiles = <<>>
        /\ pc \in {"step1_done", "done"}
        /\ issued = 0 /\ accessToken = 0
        /\ ~call.active /\ log = <<>> /\ step2.log = <<>> /\ step2.pdfFiles = <<>>
        /\ remote = {}
        /\ ~failureSignal

(***************************************************************************)
(* Concurrent use of one session (checked under SpecConcurrent).           *)
(***************************************************************************)
\* the calls whose catch block is waiting for authenticate()
Refreshing == {c \in DOMAIN inflight : inflight[c].pc = "refreshing"}

\* how many authenticate() calls the 401 answers to token t have caused
RefreshesFor(t) ==
    Cardinality({<<c, i>> \in (DOMAIN inflight) \X (1..MaxAttempts) :
                    i <= Len(inflight[c].refreshes) /\ inflight[c].refreshes[i] = t})

\* C20: when concurrent uploadFile calls of one session are answered 401 for
\* the same token, at most one authenticate() call is in progress at any
\* time and that token's expiry causes one authenticate() call.
C20_SingleRefreshPerExpiry ==
    /\ Cardinality(Refreshing) <= 1
    /\ \A t \in 0..issued : RefreshesFor(t) <= 1

(***************************************************************************)
(* Termination of uploadFile (checked under SpecExpiry).                   *)
(***************************************************************************)
\* C21: every uploadFile call returns, success or failure, when each of its
\* requests returns, also when every PUT is answered 401 and every
\* re-authentication succeeds.
C21_UploadFileReturns == [](call.active => <>(~call.active))

(***************************************************************************)
(* The existence probe (checked under SpecProbe).                          *)
(***************************************************************************)
\* what an execution of uploadFile shows apart from the probe's answer and
\* the fileExists local: where it is, whether it resolved (successCount++)
\* or rejected (errorCount++), the requests it has made, the session, the drive
Observed(st) ==
    [pc |-> st.pc, puts |-> st.puts, unauthorized |-> st.unauthorized,
     reauths |-> st.reauths, authCalls |-> st.authCalls,
     accessToken |-> st.accessToken, refreshToken |-> st.refreshToken,
     issued |-> st.issued, remote |-> st.remote]

\* C26: two executions of one uploadFile call that differ only in the
\* answers to the existence probe (found, not found, 401, any other error)
\* are at the same point at every step, have made the same PUT requests and
\* re-authentications, leave the same drive and session, and both resolve or
\* both reject, so the file is counted in the same counter.
C26_ProbeNeverChangesOutcome ==
    Observed(inflight[1]) = Observed(inflight[2])

\* the item exists; one execution is told so, the other's probe is answered
\* 401; both then upload with one PUT and no re-authentication
C26_Witness ==
    /\ inflight[1].probed = "by_state" /\ inflight[1].fileExists
    /\ inflight[2].probed = "unauthorized" /\ ~inflight[2].fileExists
    /\ inflight[1].pc = "resolved" /\ inflight[2].pc = "resolved"
    /\ inflight[1].puts = 1 /\ inflight[2].puts = 1
    /\ inflight[2].reauths = 0

====
